---- MODULE Spec2Model ----
(***************************************************************************)
(* Model of the nfc-gate-service daemon: the asyncio relay controller      *)
(* (src/src/relay_controller.py), the access logger                        *)
(* (src/src/access_logger.py), the orchestrating controller                *)
(* (src/src/turnstile_controller.py), the updater (src/src/updater.py) and *)
(* the remote-command client (src/src/websocket_client.py).                *)
(*                                                                         *)
(* Scheduling follows asyncio: callbacks scheduled with call_soon (first   *)
(* step of a created task, delivery of a cancellation, wake-up of the      *)
(* coroutine awaiting a finished task or a released lock) are kept in the  *)
(* FIFO sequence `ready` and run one at a time, each to its next           *)
(* suspension point.  A coroutine suspended on I/O (reader, backend,       *)
(* websocket, file) resumes when its answer arrives, at any time.  Time is *)
(* discrete; it advances (Tick) only when no callback is ready and no      *)
(* timer is due, i.e. running ready callbacks takes no time.  GPIO writes  *)
(* are taken to succeed.  BackendClient is not part of the sources; its    *)
(* calls answer as its interface allows, or raise.  The whitelist file     *)
(* holds a list of card ids; `whitelist` is the set of the modelled cards  *)
(* on it.                                                                  *)
(*                                                                         *)
(* The specifications share the definitions: SpecRelay (the relay          *)
(* controller behind its interface), Spec (the card and remote-command     *)
(* pipelines over relays and logger), SpecLoops (the supervised loops and  *)
(* shutdown), SpecLog (the access logger, its file and restarts), SpecLoad *)
(* (the logger started on any file content), SpecCancel (cancelled timed   *)
(* activations), SpecStop (shutdown with a queue to drain), SpecUpdate     *)
(* (the update sessions of the periodic loop), SpecTriggers (the updater   *)
(* invoked by two coroutines), SpecWs (the remote-command client           *)
(* connecting, listening and reconnecting beside the loops), SpecDrain     *)
(* (drains of the queue beside the card loop), SpecRetry (the card loop    *)
(* and the monitor under fair scheduling) and SpecShutdown (SpecWs under   *)
(* fair scheduling).                                                       *)
(***************************************************************************)
EXTENDS Integers, Sequences, FiniteSets, TLC

(* ---- bounds of the model ---- *)
MaxDur == 2
MaxEvents == 2
MaxChecks == 2

(* ---- program constants ---- *)
Channels == {1, 2}
Owners == {"nfc", "ws"}
Procs == {"nfc", "ws", "mon", "upd", "stop"}
Drainers == {"mon", "stop"}
Durations == 1..MaxDur
Cards == {"c1"}
MAX_OFFLINE_LOGS == 2
MAX_RECONNECT_ATTEMPTS == 5

(* The file Config.OFFLINE_LOGS_FILE: missing, blank, a JSON list of events, another   *)
(* JSON value that has a length (object, string) or has none (null, number, boolean),  *)
(* or text that is not JSON.                                                           *)
NoDocument == [kind |-> "absent", logs |-> <<>>]
BlankDocument == [kind |-> "blank", logs |-> <<>>]
GarbageDocument == [kind |-> "garbage", logs |-> <<>>]
ObjectDocument == [kind |-> "object", logs |-> <<>>]
ScalarDocument == [kind |-> "scalar", logs |-> <<>>]

(* _offline_logs_cache bound to an object without append (events are numbered from 1, *)
(* stored ones below 0).                                                               *)
NotAList == <<0>>
NoTask == [st |-> "none", ch |-> 0, dur |-> 0, rem |-> 0]
NoRun == [p |-> "none", stage |-> "none", card |-> "none", dir |-> "none", on |-> FALSE, ans |-> "none",
          inwl |-> FALSE, auth |-> FALSE, evid |-> 0, evAuth |-> FALSE, offl |-> FALSE, onEv |-> FALSE,
          nlog |-> 0, act |-> 0, actdur |-> 0, perr |-> FALSE, cmd |-> "none"]

VARIABLES
    config,          \* Config: DEVICE_TYPE, FALLBACK_MODE_ENABLED, RELAY_OPEN_DURATION
    cancelledIsException, \* interpreter: asyncio.CancelledError derives from Exception (3.7) or not
    running,         \* TurnstileController.running
    connection_online, \* TurnstileController.connection_online
    whitelist,       \* content of Config.WHITELIST_FILE
    cache,           \* AccessLogger._offline_logs_cache
    disk,            \* content of Config.OFFLINE_LOGS_FILE
    lock,            \* AccessLogger.offline_logs_lock: the holder, or "none"
    lockq,           \* coroutines waiting for the lock, in order
    run,             \* the pipeline run of each intake coroutine: inputs, decision, event
    nextId,          \* number of access events created so far, plus one
    snap,            \* the snapshot a drain (_sync_offline_data) is sending to the backend
    ws_running,      \* WebSocketClient.running
    relay_states,    \* RelayController.relay_states
    relay_tasks,     \* RelayController._relay_tasks: channel -> owner of the live task, or "none"
    tasks,           \* the timed-activation task each owner awaits
    ready,           \* the event loop's FIFO of ready callbacks
    pc,              \* position of each coroutine
    ret,             \* what activate_relay returned to each owner
    age,             \* ticks since the last accepted activate_relay call per channel
    win,             \* duration passed to that call
    superseding,     \* the pending activation that call cancelled, if any
    stopped,         \* owners of the pending activations emergency_stop_all cancelled
    obs,             \* the pipeline run that has just reached its actuation step
    updating,        \* AutoUpdater.updating
    app,             \* content of AutoUpdater.app_dir, the version marker included
    backups,         \* the archives in AutoUpdater.backup_dir, oldest first by creation time
    restart_required, \* the restart-request marker file exists
    session,         \* each check_and_update invocation: position, metadata, what it did
    nchecks,         \* number of check_and_update invocations made so far
    current_reconnect_attempts, \* WebSocketClient.current_reconnect_attempts
    websocket        \* WebSocketClient.websocket: "none", "open" or "closed"

cfgVars == <<config, cancelledIsException>>
relayVars == <<relay_states, relay_tasks, tasks, ready>>
tmVars == <<age, win, superseding, stopped>>
ghostVars == <<age, win, superseding, stopped, obs>>
logVars == <<cache, disk, lock, lockq>>
ctlVars == <<running, connection_online, whitelist, run, nextId, snap, ws_running>>
updVars == <<updating, app, backups, restart_required, session, nchecks>>
wsVars == <<current_reconnect_attempts, websocket>>

vars == <<cfgVars, updVars, wsVars, relayVars, ghostVars, logVars, ctlVars, pc, ret>>

is_turnstile == config.DEVICE_TYPE = "turnstile"

relay_pins == IF is_turnstile THEN {1, 2} ELSE {1}

MaxAge == MaxDur + 1

(* ---- AutoUpdater: trees, archives, packages and what the backend sends ---- *)
(* An application tree: the files it holds and the text of its VERSION file   *)
(* ("none": no such file).                                                    *)
Tree(files, version) == [files |-> files, version |-> version]
NoTree == Tree("none", "none")            \* app_dir does not exist
PartialTree == Tree("partial", "none")    \* app_dir half removed or half written
BrokenArchive == Tree("broken", "none")   \* an archive cut short while it was written
InstalledTree == Tree("u1", "1.0.0")
OlderTree == Tree("u0", "0.9.0")

(* get_current_version, lines 46-53 *)
CurrentVersion(t) == IF t.version = "none" THEN "1.0.0" ELSE t.version

(* _cleanup_old_backups keeps the 5 archives created last (line 405) *)
BACKUPS_KEPT == 5

(* The packages the backend can offer: one of the installed version, one newer. *)
Packages == {[id |-> "u1", version |-> "1.0.0"], [id |-> "u2", version |-> "1.1.0"]}

(* Downloaded bytes, their SHA-256 digest (hexdigest) and their length. *)
Payloads == {"d1", "d2", "d3"}
SHA256(d) == CASE d = "d1" -> "h1" [] d = "d2" -> "h2" [] OTHER -> "h3"
Size(d) == IF d = "d3" THEN 3 ELSE 2

(* check_updates answered nothing. *)
NoInfo == [present |-> FALSE, available |-> FALSE, id |-> "none", version |-> "none",
           hash |-> "absent", size |-> 0, restart |-> "absent"]

(* The metadata check_updates can answer: nothing, no update available, or an   *)
(* offer of a package with or without hash, size and requires_restart.          *)
UpdateInfos ==
    {NoInfo, [NoInfo EXCEPT !.present = TRUE]}
    \cup {[present |-> TRUE, available |-> TRUE, id |-> k.id, version |-> k.version,
           hash |-> h, size |-> z, restart |-> r] :
             k \in Packages, h \in {"absent", "h1"}, z \in {0, 2},
             r \in {"absent", "true", "false"}}

(* One check_and_update invocation: pc is its position; info the metadata of its *)
(* session; data: the bytes downloaded; opened: _perform_update was entered; phase: where the session failed;*)
(* reports: the statuses passed to report_update_status; atOpen, bkOpen: tree and*)
(* archives when the session opened; before: the tree when _create_backup began; *)
(* rollback: _restore_backup was called; result: how the invocation ended.       *)
NoSession == [pc |-> "idle", info |-> NoInfo, data |-> "none", opened |-> FALSE,
              phase |-> "none", reports |-> <<>>, atOpen |-> NoTree, bkOpen |-> <<>>, before |-> NoTree,
              archived |-> FALSE, rollback |-> FALSE, result |-> "none"]

Triggers == {"periodic", "manual"}

(* The updater at rest: nothing was ever invoked. *)
UpdaterIdle ==
    /\ updating = FALSE
    /\ app = InstalledTree
    /\ backups = <<>>
    /\ restart_required = FALSE
    /\ session = [c \in Triggers |-> NoSession]
    /\ nchecks = 0

(* ---- asyncio.Task.cancel() on the task owned by p ---- *)
TaskDone(tk, p) == tk[p].st \in {"none", "done", "cancelled", "failed"}

CancelTask(tk, p) ==
    CASE tk[p].st = "sleep" -> [tk EXCEPT ![p].st = "cancel"]
      [] tk[p].st = "fired" -> [tk EXCEPT ![p].st = "cancel"]
      [] tk[p].st = "new"   -> [tk EXCEPT ![p].st = "new_c"]
      [] OTHER              -> tk

CancelReady(tk, rq, p) ==
    IF tk[p].st = "sleep" THEN Append(rq, <<"task", p>>) ELSE rq

(* `channel in self._relay_tasks and not self._relay_tasks[channel].done()` *)
LiveTask(rt, tk, channel) ==
    /\ rt[channel] /= "none"
    /\ tk[rt[channel]].ch = channel
    /\ ~TaskDone(tk, rt[channel])

(* What an activate_relay call on `channel` cancels: "none", or the position of the *)
(* pending activation ("new": not started, "sleep": energized and waiting, ...).      *)
Superseded(rt, tk, channel) ==
    IF LiveTask(rt, tk, channel) THEN tk[rt[channel]].st ELSE "none"

(* ---- RelayController.activate_relay up to `await self._relay_tasks[channel]` ---- *)
(* The result is the new (_relay_tasks, tasks, ready); `o` is the calling coroutine. *)
ActivateRelay_CreateBeforeCancel(o, channel, duration, rt, tk, rq) ==
    LET p   == rt[channel]
        pending == LiveTask(rt, tk, channel)
        tk1 == [tk EXCEPT ![o] = [st |-> "new", ch |-> channel, dur |-> duration, rem |-> 0]]
        rq1 == Append(rq, <<"task", o>>)
        tk2 == IF pending THEN CancelTask(tk1, p) ELSE tk1
        rq2 == IF pending THEN CancelReady(tk1, rq1, p) ELSE rq1
    IN [rt |-> [rt EXCEPT ![channel] = o], tk |-> tk2, rq |-> rq2]

ActivateRelay(o, channel, duration, rt, tk, rq) ==
    LET p   == rt[channel]
        pending == LiveTask(rt, tk, channel)
        tk1 == IF pending THEN CancelTask(tk, p) ELSE tk
        rq1 == IF pending THEN CancelReady(tk, rq, p) ELSE rq
        tk2 == [tk1 EXCEPT ![o] = [st |-> "new", ch |-> channel, dur |-> duration, rem |-> 0]]
        rq2 == Append(rq1, <<"task", o>>)
    IN [rt |-> [rt EXCEPT ![channel] = o], tk |-> tk2, rq |-> rq2]

(* ---- one step of RelayController._timed_relay_activation run by the loop ---- *)
(* The task of owner o is at the head of `ready`. Result: new (relay_states, tasks, ready). *)
TimedRelayActivation_SleepsLonger(o, rs, tk, rq) ==
    LET t == tk[o] IN
    CASE t.st = "new" ->
            [rs |-> [rs EXCEPT ![t.ch] = TRUE],
             tk |-> [tk EXCEPT ![o].st = "sleep", ![o].rem = t.dur + 1],
             rq |-> Tail(rq)]
      [] t.st = "new_c" ->
            [rs |-> rs,
             tk |-> [tk EXCEPT ![o].st = "cancelled"],
             rq |-> Append(Tail(rq), <<"wake", o>>)]
      [] t.st = "fired" ->
            [rs |-> [rs EXCEPT ![t.ch] = FALSE],
             tk |-> [tk EXCEPT ![o].st = "done"],
             rq |-> Append(Tail(rq), <<"wake", o>>)]
      [] OTHER ->
            [rs |-> [rs EXCEPT ![t.ch] = FALSE],
             tk |-> [tk EXCEPT ![o].st = "cancelled"],
             rq |-> Append(Tail(rq), <<"wake", o>>)]

TimedRelayActivation_NoOffOnCancel(o, rs, tk, rq) ==
    LET t == tk[o] IN
    CASE t.st = "new" ->
            [rs |-> [rs EXCEPT ![t.ch] = TRUE],
             tk |-> [tk EXCEPT ![o].st = "sleep", ![o].rem = t.dur],
             rq |-> Tail(rq)]
      [] t.st = "new_c" ->
            [rs |-> rs,
             tk |-> [tk EXCEPT ![o].st = "cancelled"],
             rq |-> Append(Tail(rq), <<"wake", o>>)]
      [] t.st = "fired" ->
            [rs |-> [rs EXCEPT ![t.ch] = FALSE],
             tk |-> [tk EXCEPT ![o].st = "done"],
             rq |-> Append(Tail(rq), <<"wake", o>>)]
      [] OTHER ->
            [rs |-> rs,
             tk |-> [tk EXCEPT ![o].st = "cancelled"],
             rq |-> Append(Tail(rq), <<"wake", o>>)]

TimedRelayActivation_NoOffOnTimer(o, rs, tk, rq) ==
    LET t == tk[o] IN
    CASE t.st = "new" ->
            [rs |-> [rs EXCEPT ![t.ch] = TRUE],
             tk |-> [tk EXCEPT ![o].st = "sleep", ![o].rem = t.dur],
             rq |-> Tail(rq)]
      [] t.st = "new_c" ->
            [rs |-> rs,
             tk |-> [tk EXCEPT ![o].st = "cancelled"],
             rq |-> Append(Tail(rq), <<"wake", o>>)]
      [] t.st = "fired" ->
            [rs |-> rs,
             tk |-> [tk EXCEPT ![o].st = "done"],
             rq |-> Append(Tail(rq), <<"wake", o>>)]
      [] OTHER ->
            [rs |-> [rs EXCEPT ![t.ch] = FALSE],
             tk |-> [tk EXCEPT ![o].st = "cancelled"],
             rq |-> Append(Tail(rq), <<"wake", o>>)]

TimedRelayActivation(o, rs, tk, rq) ==
    LET t == tk[o] IN
    CASE t.st = "new" ->
            \* lines 80-86: energize, then suspend in asyncio.sleep(duration)
            [rs |-> [rs EXCEPT ![t.ch] = TRUE],
             tk |-> [tk EXCEPT ![o].st = "sleep", ![o].rem = t.dur],
             rq |-> Tail(rq)]
      [] t.st = "new_c" ->
            \* cancelled before its first step: the coroutine body never runs
            [rs |-> rs,
             tk |-> [tk EXCEPT ![o].st = "cancelled"],
             rq |-> Append(Tail(rq), <<"wake", o>>)]
      [] t.st = "fired" ->
            \* lines 88-91: the sleep returned, de-energize
            [rs |-> [rs EXCEPT ![t.ch] = FALSE],
             tk |-> [tk EXCEPT ![o].st = "done"],
             rq |-> Append(Tail(rq), <<"wake", o>>)]
      [] OTHER ->
            \* lines 93-97: CancelledError thrown into the sleep; de-energize, re-raise
            [rs |-> [rs EXCEPT ![t.ch] = FALSE],
             tk |-> [tk EXCEPT ![o].st = "cancelled"],
             rq |-> Append(Tail(rq), <<"wake", o>>)]

(* ---- RelayController.emergency_stop_all ---- *)
(* Result: new (relay_states, tasks, ready). *)
RECURSIVE CancelAll(_, _, _, _)
CancelAll(cs, rt, tk, rq) ==
    IF cs = {} THEN [tk |-> tk, rq |-> rq]
    ELSE LET c == CHOOSE x \in cs : \A y \in cs : x <= y
             live == LiveTask(rt, tk, c)
         IN CancelAll(cs \ {c}, rt,
                      IF live THEN CancelTask(tk, rt[c]) ELSE tk,
                      IF live THEN CancelReady(tk, rq, rt[c]) ELSE rq)

EmergencyStopAll_NoCancel(rs, rt, tk, rq) ==
    [rs |-> [ch \in Channels |-> IF ch \in relay_pins THEN FALSE ELSE rs[ch]],
     tk |-> tk, rq |-> rq]

EmergencyStopAll(rs, rt, tk, rq) ==
    LET c == CancelAll(Channels, rt, tk, rq)
    IN [rs |-> [ch \in Channels |-> IF ch \in relay_pins THEN FALSE ELSE rs[ch]],
        tk |-> c.tk, rq |-> c.rq]

(* ---- what `await self._relay_tasks[channel]` gives activate_relay, lines 70-75 ---- *)
ActivateRelayResult(tk, o) ==
    CASE tk[o].st = "done" -> "True"
      [] tk[o].st = "cancelled" ->
            IF cancelledIsException THEN "False" ELSE "CancelledError"
      [] OTHER -> "False"

(* ------------------------------------------------------------------------ *)
(* The event loop                                                           *)
(* ------------------------------------------------------------------------ *)

(* The loop runs the ready callback at the head of the queue: a step of a timed activation. *)
RunTask ==
    /\ ready /= <<>>
    /\ Head(ready)[1] = "task"
    /\ LET r == TimedRelayActivation(Head(ready)[2], relay_states, tasks, ready)
       IN /\ relay_states' = r.rs
          /\ tasks' = r.tk
          /\ ready' = r.rq
    /\ stopped' = stopped \ {Head(ready)[2]}
    /\ obs' = NoRun
    /\ UNCHANGED <<cfgVars, updVars, wsVars, age, win, superseding, logVars, ctlVars, relay_tasks, pc, ret>>

(* A timer of asyncio.sleep(duration) is due: the loop schedules the sleeper's wake-up. *)
Fire(o) ==
    /\ tasks[o].st = "sleep"
    /\ tasks[o].rem = 0
    /\ tasks' = [tasks EXCEPT ![o].st = "fired"]
    /\ ready' = Append(ready, <<"task", o>>)
    /\ obs' = NoRun
    /\ UNCHANGED <<cfgVars, updVars, wsVars, tmVars, logVars, ctlVars, relay_states, relay_tasks, pc, ret>>

(* One unit of time passes: nothing is ready and no timer is due. *)
Tick ==
    /\ ready = <<>>
    /\ \A o \in Owners : tasks[o].st = "sleep" => tasks[o].rem > 0
    /\ \E o \in Owners : tasks[o].st = "sleep"
    /\ tasks' = [o \in Owners |->
                    IF tasks[o].st = "sleep"
                    THEN [tasks[o] EXCEPT !.rem = @ - 1] ELSE tasks[o]]
    /\ age' = [c \in Channels |->
                  IF win[c] > 0 /\ age[c] < MaxAge THEN age[c] + 1 ELSE age[c]]
    /\ obs' = NoRun
    /\ UNCHANGED <<cfgVars, updVars, wsVars, logVars, ctlVars, relay_states, relay_tasks, ready, pc, ret,
                   win, superseding, stopped>>

(* ------------------------------------------------------------------------ *)
(* SpecRelay: the relay controller driven through its interface by two      *)
(* coroutines that call activate_relay(channel, duration) with any          *)
(* arguments, and a third party calling emergency_stop_all.                 *)
(* ------------------------------------------------------------------------ *)

ClientActivate(o, channel, duration) ==
    /\ pc[o] = "idle"
    /\ IF channel \notin relay_pins
       THEN \* lines 53-55: unknown channel, no side effect
            /\ ret' = [ret EXCEPT ![o] = "False"]
            /\ UNCHANGED <<relay_tasks, tasks, ready, pc, tmVars>>
       ELSE LET r == ActivateRelay(o, channel, duration, relay_tasks, tasks, ready)
            IN /\ relay_tasks' = r.rt
               /\ tasks' = r.tk
               /\ ready' = r.rq
               /\ pc' = [pc EXCEPT ![o] = "relay"]
               /\ ret' = [ret EXCEPT ![o] = "pending"]
               /\ age' = [age EXCEPT ![channel] = 0]
               /\ win' = [win EXCEPT ![channel] = duration]
               /\ superseding' = [superseding EXCEPT ![channel] =
                                      Superseded(relay_tasks, tasks, channel)]
               /\ UNCHANGED stopped
    /\ obs' = NoRun
    /\ UNCHANGED <<cfgVars, updVars, wsVars, logVars, ctlVars, relay_states>>

(* The awaited task finished: activate_relay returns (or CancelledError leaves it). *)
ClientResume ==
    /\ ready /= <<>>
    /\ Head(ready)[1] = "wake"
    /\ LET o == Head(ready)[2]
       IN /\ ret' = [ret EXCEPT ![o] = ActivateRelayResult(tasks, o)]
          /\ tasks' = [tasks EXCEPT ![o] = NoTask]
          /\ pc' = [pc EXCEPT ![o] = "idle"]
          /\ ready' = Tail(ready)
    /\ obs' = NoRun
    /\ UNCHANGED <<cfgVars, updVars, wsVars, tmVars, logVars, ctlVars, relay_states, relay_tasks>>

(* emergency_stop_all called and returned; stopped keeps whose pending activations *)
(* it cancelled until their tasks have ended.                                       *)
ClientEmergencyStop ==
    /\ LET r == EmergencyStopAll(relay_states, relay_tasks, tasks, ready)
       IN /\ relay_states' = r.rs
          /\ tasks' = r.tk
          /\ ready' = r.rq
    /\ stopped' = stopped \cup {relay_tasks[c] : c \in {x \in Channels :
                                                       LiveTask(relay_tasks, tasks, x)}}
    /\ obs' = NoRun
    /\ UNCHANGED <<cfgVars, updVars, wsVars, age, win, superseding, logVars, ctlVars, relay_tasks, pc, ret>>

InitRelay ==
    /\ config \in [DEVICE_TYPE : {"turnstile", "door"},
                    FALLBACK_MODE_ENABLED : {TRUE},
                    RELAY_OPEN_DURATION : {MaxDur},
                    AUTO_UPDATE_ENABLED : {TRUE},
                    MAX_OFFLINE_LOGS : {MAX_OFFLINE_LOGS}]
    /\ cancelledIsException \in BOOLEAN
    /\ running = TRUE
    /\ connection_online = TRUE
    /\ whitelist = {}
    /\ cache = <<>>
    /\ disk = NoDocument
    /\ lock = "none"
    /\ lockq = <<>>
    /\ run = [o \in Owners |-> NoRun]
    /\ nextId = 1
    /\ snap = [p \in Drainers |-> <<>>]
    /\ ws_running = TRUE
    /\ relay_states = [c \in Channels |-> FALSE]
    /\ relay_tasks = [c \in Channels |-> "none"]
    /\ tasks = [o \in Owners |-> NoTask]
    /\ ready = <<>>
    /\ pc = [p \in Procs |-> IF p \in Owners THEN "idle" ELSE "off"]
    /\ ret = [o \in Owners |-> "none"]
    /\ age = [c \in Channels |-> 0]
    /\ win = [c \in Channels |-> 0]
    /\ superseding = [c \in Channels |-> "none"]
    /\ stopped = {}
    /\ obs = NoRun
    /\ UpdaterIdle
    /\ current_reconnect_attempts = 0
    /\ websocket = IF pc["ws"] = "listen" THEN "open" ELSE "none"

NextRelay ==
    \/ RunTask
    \/ \E o \in Owners : Fire(o)
    \/ Tick
    \/ \E o \in Owners, c \in Channels, d \in Durations : ClientActivate(o, c, d)
    \/ ClientResume
    \/ ClientEmergencyStop

SpecRelay == InitRelay /\ [][NextRelay]_vars

C2_RestartsWindow ==
    \A c \in Channels :
        (superseding[c] /= "none" /\ LiveTask(relay_tasks, tasks, c)
            /\ tasks[relay_tasks[c]].st = "sleep")
        => (relay_states[c] /\ tasks[relay_tasks[c]].rem + age[c] = win[c])

(* C2 witness: an energized, pending window was superseded; its caller has resumed *)
(* and the new window is running.                                                  *)
C2_Witness ==
    \E c \in Channels, o \in Owners :
        /\ superseding[c] = "sleep" /\ relay_tasks[c] = o /\ tasks[o].st = "sleep"
        /\ age[c] > 0 /\ relay_states[c]
        /\ \E p \in Owners \ {o} : ret[p] \in {"False", "CancelledError"}

(* ------------------------------------------------------------------------ *)
(* TurnstileController and AccessLogger                                     *)
(* ------------------------------------------------------------------------ *)

(* Answers of BackendClient.check_access: a response with authorized true or false, *)
(* a response without the key, or an exception.                                     *)
Answers == {"true", "false", "absent", "raise"}

(* ---- TurnstileController._check_authorization ---- *)
(* online: connection_online when the check starts; inwl: card_id in the whitelist. *)
CheckAuthorization_WhitelistFirst(online, answer, fallback, inwl) ==
    IF fallback THEN inwl
    ELSE online /\ answer = "true"

CheckAuthorization_OpenOnFailure(online, answer, fallback, inwl) ==
    IF online
    THEN IF answer = "raise" THEN TRUE ELSE answer = "true"
    ELSE IF fallback THEN inwl ELSE FALSE

CheckAuthorization_OfflineIgnoresFlag(online, answer, fallback, inwl) ==
    IF online
    THEN IF answer = "raise"
         THEN (IF fallback THEN inwl ELSE FALSE)
         ELSE answer = "true"
    ELSE inwl

CheckAuthorization_DefaultTrue(online, answer, fallback, inwl) ==
    IF online
    THEN IF answer = "raise"
         THEN (IF fallback THEN inwl ELSE FALSE)
         ELSE answer \in {"true", "absent"}
    ELSE IF fallback THEN inwl ELSE FALSE

CheckAuthorization(online, answer, fallback, inwl) ==
    IF online
    THEN IF answer = "raise"
         THEN \* lines 154-160: except Exception, fall back on the whitelist
              (IF fallback THEN inwl ELSE FALSE)
         ELSE \* line 147: response.get('authorized', False)
              answer = "true"
    ELSE \* lines 148-153
         IF fallback THEN inwl ELSE FALSE

(* ---- TurnstileController._open_turnstile: the channel it activates, 0 for none ---- *)
OpenChannel_Swapped(direction) ==
    IF direction = "in" THEN (IF is_turnstile THEN 2 ELSE 1)
    ELSE IF direction = "out" /\ is_turnstile THEN 1
    ELSE 0

OpenChannel(direction) ==
    IF direction = "in" THEN 1
    ELSE IF direction = "out" /\ is_turnstile THEN 2
    ELSE 0

(* ---- AccessLogger._save_offline_log lines 77-84: append, keep the newest ---- *)
(* Python's q[-n:]: the last n entries; all of q when n = 0 (-0 is 0, the slice q[0:]). *)
LastSlice(q, n) ==
    IF n = 0 \/ n >= Len(q) THEN q
    ELSE IF n > 0 THEN SubSeq(q, Len(q) - n + 1, Len(q))
    ELSE SubSeq(q, 1 - n, Len(q))

AppendAndEvict(q, e) ==
    LET a == Append(q, e)
    IN IF Len(a) > config.MAX_OFFLINE_LOGS
       THEN LastSlice(a, config.MAX_OFFLINE_LOGS)
       ELSE a

(* The queue holds the events by their identity (the order of creation). *)
Event(r) == r.evid

(* ---- asyncio.Lock.release: wake the first waiter through the ready queue ---- *)
ReleaseReady(rq) ==
    IF lockq /= <<>> THEN Append(rq, <<"lock", Head(lockq)>>) ELSE rq

(* Where the intake coroutine p goes once a card or command has been handled. *)
AfterHandle(p, r) ==
    IF p = "nfc"
    THEN IF r.dir = "in" /\ is_turnstile THEN "read_out" ELSE "sleep"
    ELSE "listen"

(* ---- after log_access returned: _handle_card_read lines 134-139, ---- *)
(* ---- _handle_websocket_command line 250.                          ---- *)
(* Sets pc, run, obs, relay_tasks, tasks, ready.                          *)
AfterLog_AbortOnPersistError(p, r, rq) ==
    LET ch == IF r.auth /\ ~r.perr THEN OpenChannel(r.dir) ELSE 0
    IN IF ch /= 0
       THEN LET a == ActivateRelay(p, ch, config.RELAY_OPEN_DURATION, relay_tasks, tasks, rq)
            IN /\ relay_tasks' = a.rt
               /\ tasks' = a.tk
               /\ ready' = a.rq
               /\ pc' = [pc EXCEPT ![p] = "relay"]
               /\ run' = [run EXCEPT ![p] = [NoRun EXCEPT !.stage = "open", !.dir = r.dir]]
               /\ obs' = [r EXCEPT !.p = p, !.stage = "open", !.act = ch,
                                   !.actdur = config.RELAY_OPEN_DURATION]
       ELSE /\ pc' = [pc EXCEPT ![p] = AfterHandle(p, r)]
            /\ run' = [run EXCEPT ![p] = NoRun]
            /\ obs' = [r EXCEPT !.p = p, !.stage = "end"]
            /\ ready' = rq
            /\ UNCHANGED <<relay_tasks, tasks>>

AfterLog(p, r, rq) ==
    LET ch == IF r.auth THEN OpenChannel(r.dir) ELSE 0
    IN IF ch /= 0
       THEN LET a == ActivateRelay(p, ch, config.RELAY_OPEN_DURATION, relay_tasks, tasks, rq)
            IN /\ relay_tasks' = a.rt
               /\ tasks' = a.tk
               /\ ready' = a.rq
               /\ pc' = [pc EXCEPT ![p] = "relay"]
               /\ run' = [run EXCEPT ![p] = [NoRun EXCEPT !.stage = "open", !.dir = r.dir]]
               /\ obs' = [r EXCEPT !.p = p, !.stage = "open", !.act = ch,
                                   !.actdur = config.RELAY_OPEN_DURATION]
       ELSE /\ pc' = [pc EXCEPT ![p] = AfterHandle(p, r)]
            /\ run' = [run EXCEPT ![p] = NoRun]
            /\ obs' = [r EXCEPT !.p = p, !.stage = "end"]
            /\ ready' = rq
            /\ UNCHANGED <<relay_tasks, tasks>>

(* ---- AccessLogger._save_offline_log up to its first suspension ---- *)
(* Sets pc, run, obs, cache, lock, lockq, relay_tasks, tasks, ready.    *)
EnterSave_NoLock(p, r, rq) ==
    /\ run' = [run EXCEPT ![p] = r]
    /\ lock' = p
    /\ cache' = AppendAndEvict(cache, Event(r))
    /\ pc' = [pc EXCEPT ![p] = "persist"]
    /\ ready' = rq
    /\ obs' = NoRun
    /\ UNCHANGED <<lockq, relay_tasks, tasks>>

EnterSave(p, r, rq) ==
    IF lock = "none" /\ lockq = <<>> /\ cache = NotAList
    THEN \* line 79 raises AttributeError, caught on line 89: nothing is appended or
         \* written, the lock is released without a suspension and log_access returns
         /\ AfterLog(p, [r EXCEPT !.perr = TRUE], rq)
         /\ UNCHANGED <<cache, lock, lockq>>
    ELSE /\ run' = [run EXCEPT ![p] = r]
         /\ IF lock = "none" /\ lockq = <<>>
            THEN \* lock taken at once: append, evict, suspend in _persist_offline_logs
                 /\ lock' = p
                 /\ cache' = AppendAndEvict(cache, Event(r))
                 /\ pc' = [pc EXCEPT ![p] = "persist"]
                 /\ UNCHANGED lockq
            ELSE /\ lockq' = Append(lockq, p)
                 /\ pc' = [pc EXCEPT ![p] = "lw_save"]
                 /\ UNCHANGED <<lock, cache>>
         /\ ready' = rq
         /\ obs' = NoRun
         /\ UNCHANGED <<relay_tasks, tasks>>

(* ---- the access event is built and handed to AccessLogger.log_access: ---- *)
(* ---- _handle_card_read lines 122-132, log_access lines 41-71          ---- *)
(* r0 carries card, direction and decision. Sets nextId and what EnterSave sets. *)
HandOver_DeniedNotLogged(p, r0, rq) ==
    LET r == [r0 EXCEPT !.evid = nextId, !.evAuth = r0.auth, !.offl = ~connection_online,
                        !.onEv = connection_online,
                        !.nlog = IF r0.auth THEN @ + 1 ELSE @, !.stage = "log"]
    IN /\ nextId' = nextId + 1
       /\ IF r.offl /\ r.auth
          THEN EnterSave(p, r, rq)
          ELSE AfterLog(p, r, rq) /\ UNCHANGED <<cache, lock, lockq>>

HandOver(p, r0, rq) ==
    LET r == [r0 EXCEPT !.evid = nextId, !.evAuth = r0.auth, !.offl = ~connection_online,
                        !.onEv = connection_online, !.nlog = @ + 1, !.stage = "log"]
    IN /\ nextId' = nextId + 1
       /\ IF r.offl
          THEN \* log_access line 63: offline_mode, save to the offline queue
               EnterSave(p, r, rq)
          ELSE \* log_access lines 57-60: nothing to do here when online
               AfterLog(p, r, rq) /\ UNCHANGED <<cache, lock, lockq>>

(* ---- TurnstileController._nfc_monitoring_loop ---- *)
(* `while self.running`, entered at start-up and after each sleep. *)
NfcLoopHead ==
    /\ pc["nfc"] \in {"start", "sleep", "backoff"}
    /\ pc' = [pc EXCEPT !["nfc"] = IF running THEN "read_in" ELSE "done"]
    /\ obs' = NoRun
    /\ UNCHANGED <<cfgVars, updVars, wsVars, relayVars, tmVars, logVars, ctlVars, ret>>

(* read_card returned: no card, or a card that starts _handle_card_read. *)
NfcRead(card) ==
    /\ pc["nfc"] \in {"read_in", "read_out"}
    /\ LET direction == IF pc["nfc"] = "read_in" THEN "in" ELSE "out"
           r0 == [NoRun EXCEPT !.stage = "auth", !.card = card, !.dir = direction,
                               !.on = connection_online]
       IN IF card = "none"
          THEN /\ pc' = [pc EXCEPT !["nfc"] = AfterHandle("nfc", r0)]
               /\ UNCHANGED <<relayVars, logVars, run, nextId, obs>>
          ELSE /\ nextId <= MaxEvents
               /\ IF connection_online
                  THEN \* line 146: suspended in backend_client.check_access
                       /\ pc' = [pc EXCEPT !["nfc"] = "auth"]
                       /\ run' = [run EXCEPT !["nfc"] = r0]
                       /\ UNCHANGED <<relayVars, logVars, nextId, obs>>
                  ELSE /\ HandOver("nfc",
                               [r0 EXCEPT !.inwl = card \in whitelist,
                                          !.auth = CheckAuthorization(FALSE, "none",
                                                      config.FALLBACK_MODE_ENABLED,
                                                      card \in whitelist)],
                               ready)
                       /\ UNCHANGED relay_states
                       /\ UNCHANGED disk
    /\ UNCHANGED <<cfgVars, updVars, wsVars, tmVars, running, connection_online, whitelist, snap,
                   ws_running, ret>>

(* check_access answered or raised: the decision, the event, log_access. *)
NfcAuthReply(answer) ==
    /\ pc["nfc"] = "auth"
    /\ LET r == run["nfc"]
       IN HandOver("nfc",
                   [r EXCEPT !.ans = answer, !.inwl = r.card \in whitelist,
                             !.auth = CheckAuthorization(TRUE, answer,
                                         config.FALLBACK_MODE_ENABLED,
                                         r.card \in whitelist)],
                   ready)
    /\ UNCHANGED <<cfgVars, updVars, wsVars, tmVars, relay_states, disk, running, connection_online,
                   whitelist, snap, ws_running, ret>>

(* lines 110-113: an exception raised inside the iteration reaches the loop's handler. *)
NfcFault ==
    /\ pc["nfc"] \in {"read_in", "read_out"}
    /\ pc' = [pc EXCEPT !["nfc"] = "backoff"]
    /\ obs' = NoRun
    /\ UNCHANGED <<cfgVars, updVars, wsVars, relayVars, tmVars, logVars, ctlVars, ret>>

(* ---- TurnstileController._handle_websocket_command, a command message arrived ---- *)
(* The run carries the action received (cmd).                                          *)
WsCommand_ChecksWhitelist(action, direction) ==
    /\ pc["ws"] = "listen"
    /\ IF action = "open_turnstile"
       THEN /\ nextId <= MaxEvents
            /\ HandOver("ws",
                        [NoRun EXCEPT !.card = "MANUAL_OPEN", !.cmd = action,
                                      !.dir = IF direction = "absent" THEN "in" ELSE direction,
                                      !.on = connection_online,
                                      !.inwl = "MANUAL_OPEN" \in whitelist,
                                      !.auth = CheckAuthorization(FALSE, "none",
                                                  config.FALLBACK_MODE_ENABLED,
                                                  "MANUAL_OPEN" \in whitelist)],
                        ready)
       ELSE /\ obs' = [NoRun EXCEPT !.p = "ws", !.stage = "acked", !.ans = "success",
                                    !.cmd = action]
            /\ UNCHANGED <<relay_tasks, tasks, ready, cache, lock, lockq, run, nextId, pc>>
    /\ UNCHANGED <<cfgVars, updVars, wsVars, tmVars, relay_states, disk, running, connection_online,
                   whitelist, snap, ws_running, ret>>

WsCommand_AnyActionOpens(action, direction) ==
    /\ pc["ws"] = "listen"
    /\ nextId <= MaxEvents
    /\ HandOver("ws",
                [NoRun EXCEPT !.card = "MANUAL_OPEN", !.cmd = action,
                              !.dir = IF direction = "absent" THEN "in" ELSE direction,
                              !.on = connection_online, !.auth = TRUE],
                ready)
    /\ UNCHANGED <<cfgVars, updVars, wsVars, tmVars, relay_states, disk, running, connection_online,
                   whitelist, snap, ws_running, ret>>

WsCommand(action, direction) ==
    /\ pc["ws"] = "listen"
    /\ IF action = "open_turnstile"
       THEN /\ nextId <= MaxEvents
            /\ HandOver("ws",
                        [NoRun EXCEPT !.card = "MANUAL_OPEN", !.cmd = action,
                                      !.dir = IF direction = "absent" THEN "in" ELSE direction,
                                      !.on = connection_online, !.auth = TRUE],
                        ready)
       ELSE \* nothing to do: the handler returns None, which _handle_command
            \* (websocket_client lines 142-151) answers with status 'success'
            /\ obs' = [NoRun EXCEPT !.p = "ws", !.stage = "acked", !.ans = "success",
                                    !.cmd = action]
            /\ UNCHANGED <<relay_tasks, tasks, ready, cache, lock, lockq, run, nextId, pc>>
    /\ UNCHANGED <<cfgVars, updVars, wsVars, tmVars, relay_states, disk, running, connection_online,
                   whitelist, snap, ws_running, ret>>

(* WebSocketClient.start: the connection was closed by stop(), the message loop *)
(* and with it start's loop ends.                                              *)
WsClosed ==
    /\ pc["ws"] = "listen"
    /\ websocket = "closed"
    /\ pc' = [pc EXCEPT !["ws"] = IF ws_running THEN "connect" ELSE "done"]
    /\ obs' = NoRun
    /\ UNCHANGED <<cfgVars, updVars, wsVars, relayVars, tmVars, logVars, ctlVars, ret>>

(* ---- the coroutine awaiting a timed activation resumes in activate_relay ---- *)
RelayResume ==
    /\ ready /= <<>>
    /\ Head(ready)[1] = "wake"
    /\ LET p == Head(ready)[2]
           res == ActivateRelayResult(tasks, p)
       IN /\ tasks' = [tasks EXCEPT ![p] = NoTask]
          /\ ready' = Tail(ready)
          /\ IF res = "CancelledError"
             THEN \* not caught by any `except Exception`: the activity's task ends
                  \* cancelled, gather raises in start(), whose finally clears running
                  /\ pc' = [pc EXCEPT ![p] = "dead"]
                  /\ running' = FALSE
             ELSE /\ pc' = [pc EXCEPT ![p] = AfterHandle(p, run[p])]
                  /\ UNCHANGED running
          /\ run' = [run EXCEPT ![p] = NoRun]
    /\ obs' = NoRun
    /\ UNCHANGED <<cfgVars, updVars, wsVars, tmVars, logVars, relay_states, relay_tasks,
                   connection_online, whitelist, nextId, snap, ws_running, ret>>

(* ---- TurnstileController._sync_offline_data and what follows it ---- *)
(* Where a drainer goes when _sync_offline_data has returned. *)
AfterDrainPc(p) == IF p = "mon" THEN "wl" ELSE "stopped"

(* get_offline_logs (access_logger lines 122-127) up to the backend call.  *)
(* Sets pc, snap, lockq, ready.  Line 197: an empty copy ends the drain     *)
(* (the copy of an empty object is empty too).                              *)
DrainStart_NoLock(p, rq) ==
    /\ IF cache \in {<<>>, NotAList}
       THEN pc' = [pc EXCEPT ![p] = AfterDrainPc(p)] /\ UNCHANGED snap
       ELSE pc' = [pc EXCEPT ![p] = "sync"] /\ snap' = [snap EXCEPT ![p] = cache]
    /\ ready' = rq
    /\ UNCHANGED lockq

DrainStart(p, rq) ==
    IF lock = "none" /\ lockq = <<>>
    THEN \* the snapshot is taken and the lock released without suspending
         /\ IF cache \in {<<>>, NotAList}
            THEN pc' = [pc EXCEPT ![p] = AfterDrainPc(p)] /\ UNCHANGED snap
            ELSE pc' = [pc EXCEPT ![p] = "sync"] /\ snap' = [snap EXCEPT ![p] = cache]
         /\ ready' = rq
         /\ UNCHANGED lockq
    ELSE /\ lockq' = Append(lockq, p)
         /\ pc' = [pc EXCEPT ![p] = "lw_get"]
         /\ ready' = rq
         /\ UNCHANGED snap

(* sync_offline_logs answered: clear_offline_logs on success (lines 129-137). *)
(* obs shows the drainer and the answer in the state that follows.            *)
SyncReply_ClearsUnconfirmed(p, res) ==
    /\ p \in Drainers
    /\ pc[p] = "sync"
    /\ IF lock = "none" /\ lockq = <<>>
       THEN /\ lock' = p
            /\ cache' = <<>>
            /\ pc' = [pc EXCEPT ![p] = "persist_clear"]
            /\ UNCHANGED lockq
       ELSE /\ lockq' = Append(lockq, p)
            /\ pc' = [pc EXCEPT ![p] = "lw_clear"]
            /\ UNCHANGED <<lock, cache>>
    /\ obs' = [NoRun EXCEPT !.p = p, !.stage = "synced", !.ans = res]
    /\ UNCHANGED <<cfgVars, updVars, wsVars, relayVars, tmVars, disk, ctlVars, ret>>

SyncReply(p, res) ==
    /\ p \in Drainers
    /\ pc[p] = "sync"
    /\ IF res = "true"
       THEN IF lock = "none" /\ lockq = <<>>
            THEN /\ lock' = p
                 /\ cache' = <<>>
                 /\ pc' = [pc EXCEPT ![p] = "persist_clear"]
                 /\ UNCHANGED lockq
            ELSE /\ lockq' = Append(lockq, p)
                 /\ pc' = [pc EXCEPT ![p] = "lw_clear"]
                 /\ UNCHANGED <<lock, cache>>
       ELSE /\ pc' = [pc EXCEPT ![p] = AfterDrainPc(p)]
            /\ UNCHANGED <<lock, lockq, cache>>
    /\ obs' = [NoRun EXCEPT !.p = p, !.stage = "synced", !.ans = res]
    /\ UNCHANGED <<cfgVars, updVars, wsVars, relayVars, tmVars, disk, ctlVars, ret>>

(* ---- asyncio.Lock: the woken waiter takes the lock and runs to its next suspension ---- *)
LockGranted ==
    /\ ready /= <<>>
    /\ Head(ready)[1] = "lock"
    /\ LET p == Head(ready)[2]
       IN /\ lockq' = Tail(lockq)
          /\ CASE pc[p] = "lw_save" ->
                    /\ lock' = p
                    /\ cache' = AppendAndEvict(cache, Event(run[p]))
                    /\ pc' = [pc EXCEPT ![p] = "persist"]
                    /\ ready' = Tail(ready)
                    /\ UNCHANGED snap
               [] pc[p] = "lw_clear" ->
                    /\ lock' = p
                    /\ cache' = <<>>
                    /\ pc' = [pc EXCEPT ![p] = "persist_clear"]
                    /\ ready' = Tail(ready)
                    /\ UNCHANGED snap
               [] OTHER ->
                    \* get_offline_logs: copy the cache, release the lock at once
                    /\ IF cache \in {<<>>, NotAList}
                       THEN pc' = [pc EXCEPT ![p] = AfterDrainPc(p)] /\ UNCHANGED snap
                       ELSE pc' = [pc EXCEPT ![p] = "sync"]
                            /\ snap' = [snap EXCEPT ![p] = cache]
                    /\ ready' = IF Tail(lockq) /= <<>>
                                THEN Append(Tail(ready), <<"lock", Head(Tail(lockq))>>)
                                ELSE Tail(ready)
                    /\ UNCHANGED <<lock, cache>>
    /\ obs' = NoRun
    /\ UNCHANGED <<cfgVars, updVars, wsVars, tmVars, relay_states, relay_tasks, tasks, disk, running,
                   connection_online, whitelist, run, nextId, ws_running, ret>>

(* ---- AccessLogger._persist_offline_logs (lines 113-120) ---- *)
(* The document after the write: replaced, untouched (open failed), or cut short. *)
Persist_SkipsEmpty(outcome) ==
    CASE outcome = "ok" -> IF cache = <<>> THEN disk ELSE [kind |-> "list", logs |-> cache]
      [] outcome = "open_failed" -> disk
      [] OTHER -> [kind |-> "garbage", logs |-> <<>>]

Persist(outcome) ==
    CASE outcome = "ok" -> [kind |-> "list", logs |-> cache]
      [] outcome = "open_failed" -> disk
      [] OTHER -> [kind |-> "garbage", logs |-> <<>>]

(* The file write ended; the lock is released; the caller goes on.  obs shows the *)
(* finished call (an append with its event, or a clear) in the state that follows. *)
PersistDone(p, outcome) ==
    /\ pc[p] \in {"persist", "persist_clear"}
    /\ disk' = Persist(outcome)
    /\ lock' = "none"
    /\ IF pc[p] = "persist"
       THEN AfterLog(p, [run[p] EXCEPT !.perr = (outcome /= "ok")], ReleaseReady(ready))
       ELSE /\ pc' = [pc EXCEPT ![p] = AfterDrainPc(p)]
            /\ ready' = ReleaseReady(ready)
            /\ obs' = [NoRun EXCEPT !.p = p, !.stage = "cleared", !.perr = (outcome /= "ok")]
            /\ UNCHANGED <<relay_tasks, tasks, run>>
    /\ UNCHANGED <<cfgVars, updVars, wsVars, tmVars, relay_states, cache, lockq, running,
                   connection_online, whitelist, nextId, snap, ws_running, ret>>

(* ---- TurnstileController._connection_monitor_loop ---- *)
MonLoopHead ==
    /\ pc["mon"] \in {"start", "sleep", "backoff"}
    /\ pc' = [pc EXCEPT !["mon"] = IF running THEN "probe" ELSE "done"]
    /\ obs' = NoRun
    /\ UNCHANGED <<cfgVars, updVars, wsVars, relayVars, tmVars, logVars, ctlVars, ret>>

MonProbeReply_EveryOnline(res) ==
    /\ pc["mon"] = "probe"
    /\ CASE res = "raise" ->
              \* lines 190-192
              /\ pc' = [pc EXCEPT !["mon"] = "backoff"]
              /\ UNCHANGED <<connection_online, snap, lockq, ready>>
         [] res = "down" ->
              /\ connection_online' = FALSE
              /\ pc' = [pc EXCEPT !["mon"] = "sleep"]
              /\ UNCHANGED <<snap, lockq, ready>>
         [] OTHER ->
              /\ connection_online' = TRUE
              /\ DrainStart("mon", ready)
    /\ obs' = [NoRun EXCEPT !.p = "mon", !.stage = "probed", !.on = connection_online,
                             !.ans = res]
    /\ UNCHANGED <<cfgVars, updVars, wsVars, tmVars, relay_states, relay_tasks, tasks, cache, disk, lock,
                   running, whitelist, run, nextId, ws_running, ret>>

(* test_connection answered "up" or "down", or raised.  obs shows the answer *)
(* and the connectivity state it met (was_online) in the state that follows. *)
MonProbeReply(res) ==
    /\ pc["mon"] = "probe"
    /\ CASE res = "raise" ->
              \* lines 190-192
              /\ pc' = [pc EXCEPT !["mon"] = "backoff"]
              /\ UNCHANGED <<connection_online, snap, lockq, ready>>
         [] res = "down" ->
              /\ connection_online' = FALSE
              /\ pc' = [pc EXCEPT !["mon"] = "sleep"]
              /\ UNCHANGED <<snap, lockq, ready>>
         [] OTHER ->
              /\ connection_online' = TRUE
              /\ IF ~connection_online
                 THEN \* lines 180-184: offline -> online
                      DrainStart("mon", ready)
                 ELSE /\ pc' = [pc EXCEPT !["mon"] = "sleep"]
                      /\ UNCHANGED <<snap, lockq, ready>>
    /\ obs' = [NoRun EXCEPT !.p = "mon", !.stage = "probed", !.on = connection_online,
                             !.ans = res]
    /\ UNCHANGED <<cfgVars, updVars, wsVars, tmVars, relay_states, relay_tasks, tasks, cache, disk, lock,
                   running, whitelist, run, nextId, ws_running, ret>>

(* _update_whitelist: get_whitelist answered wl (empty: nothing, or it raised). *)
MonWhitelistReply(wl) ==
    /\ pc["mon"] = "wl"
    /\ whitelist' = IF wl /= {} THEN wl ELSE whitelist
    /\ pc' = [pc EXCEPT !["mon"] = "sleep"]
    /\ obs' = NoRun
    /\ UNCHANGED <<cfgVars, updVars, wsVars, relayVars, tmVars, logVars, running, connection_online,
                   run, nextId, snap, ws_running, ret>>

(* ---- TurnstileController._updater_loop ---- *)
UpdLoopHead ==
    /\ pc["upd"] \in {"start", "sleep", "backoff"}
    /\ pc' = [pc EXCEPT !["upd"] =
                 IF ~running THEN "done"
                 ELSE IF config.AUTO_UPDATE_ENABLED /\ connection_online
                      THEN "update" ELSE "sleep"]
    /\ obs' = NoRun
    /\ UNCHANGED <<cfgVars, updVars, wsVars, relayVars, tmVars, logVars, ctlVars, ret>>

(* check_and_update returned, or an exception reached the loop's handler. *)
UpdReturn(raised) ==
    /\ pc["upd"] = "update"
    /\ pc' = [pc EXCEPT !["upd"] = IF raised THEN "backoff" ELSE "sleep"]
    /\ obs' = NoRun
    /\ UNCHANGED <<cfgVars, updVars, wsVars, relayVars, tmVars, logVars, ctlVars, ret>>

(* ---- TurnstileController.stop ---- *)
(* lines 81-84: running cleared; websocket_client.stop() clears the client's   *)
(* flag and closes the connection if one is open (websocket_client.py lines     *)
(* 226-235).                                                                    *)
StopRequest ==
    /\ pc["stop"] = "idle"
    /\ running' = FALSE
    /\ ws_running' = FALSE
    /\ websocket' = IF websocket = "open" THEN "closed" ELSE websocket
    /\ pc' = [pc EXCEPT !["stop"] = "closing"]
    /\ obs' = NoRun
    /\ UNCHANGED <<cfgVars, updVars, current_reconnect_attempts, relayVars, tmVars, logVars,
                   connection_online, whitelist, run, nextId, snap, ret>>

(* lines 85-86: reader cleanup, relay cleanup up to its gather. *)
StopCleanup ==
    /\ pc["stop"] = "closing"
    /\ LET r == EmergencyStopAll(relay_states, relay_tasks, tasks, ready)
       IN /\ relay_states' = r.rs
          /\ tasks' = r.tk
          /\ ready' = r.rq
    /\ pc' = [pc EXCEPT !["stop"] = "gather"]
    /\ obs' = NoRun
    /\ UNCHANGED <<cfgVars, updVars, wsVars, tmVars, logVars, ctlVars, relay_tasks, ret>>

(* relay cleanup's gather returned; lines 88-90: drain if online. *)
StopGathered ==
    /\ pc["stop"] = "gather"
    /\ \A c \in Channels : ~LiveTask(relay_tasks, tasks, c)
    /\ IF connection_online
       THEN DrainStart("stop", ready)
       ELSE /\ pc' = [pc EXCEPT !["stop"] = "stopped"]
            /\ UNCHANGED <<snap, lockq, ready>>
    /\ obs' = NoRun
    /\ UNCHANGED <<cfgVars, updVars, wsVars, tmVars, relay_states, relay_tasks, tasks, cache, disk, lock,
                   running, connection_online, whitelist, run, nextId, ws_running, ret>>

(* ------------------------------------------------------------------------ *)
(* Spec: the two intakes (card-poll loop, remote command handler) running   *)
(* the pipeline over the relay controller and the access logger.  Of the    *)
(* connection monitor this specification keeps what the pipeline reads: its *)
(* writes to connection_online and to the whitelist file, which may fall     *)
(* between any two steps of a pipeline run.                                  *)
(* ------------------------------------------------------------------------ *)

(* _connection_monitor_loop line 178: the probe's result is stored. *)
ConnectivityChange(up) ==
    /\ connection_online /= up
    /\ connection_online' = up
    /\ obs' = NoRun
    /\ UNCHANGED <<cfgVars, updVars, wsVars, relayVars, tmVars, logVars, running, whitelist, run, nextId,
                   snap, ws_running, pc, ret>>

(* _update_whitelist lines 211-213: a non-empty whitelist replaces the file. *)
WhitelistChange(wl) ==
    /\ wl /= {}
    /\ wl /= whitelist
    /\ whitelist' = wl
    /\ obs' = NoRun
    /\ UNCHANGED <<cfgVars, updVars, wsVars, relayVars, tmVars, logVars, running, connection_online, run,
                   nextId, snap, ws_running, pc, ret>>

Init ==
    /\ config \in [DEVICE_TYPE : {"turnstile", "door"},
                   FALLBACK_MODE_ENABLED : BOOLEAN,
                   RELAY_OPEN_DURATION : {1},
                   AUTO_UPDATE_ENABLED : {TRUE},
                   MAX_OFFLINE_LOGS : {MAX_OFFLINE_LOGS}]
    /\ cancelledIsException \in BOOLEAN
    /\ running = TRUE
    /\ connection_online \in BOOLEAN
    /\ whitelist \in SUBSET Cards
    /\ cache = <<>>
    /\ disk = NoDocument
    /\ lock = "none"
    /\ lockq = <<>>
    /\ run = [o \in Owners |-> NoRun]
    /\ nextId = 1
    /\ snap = [p \in Drainers |-> <<>>]
    /\ ws_running = TRUE
    /\ relay_states = [c \in Channels |-> FALSE]
    /\ relay_tasks = [c \in Channels |-> "none"]
    /\ tasks = [o \in Owners |-> NoTask]
    /\ ready = <<>>
    /\ pc = [p \in Procs |->
                CASE p = "nfc" -> "start" [] p = "ws" -> "listen" [] OTHER -> "off"]
    /\ ret = [o \in Owners |-> "none"]
    /\ age = [c \in Channels |-> 0]
    /\ win = [c \in Channels |-> 0]
    /\ superseding = [c \in Channels |-> "none"]
    /\ stopped = {}
    /\ obs = NoRun
    /\ UpdaterIdle
    /\ current_reconnect_attempts = 0
    /\ websocket = IF pc["ws"] = "listen" THEN "open" ELSE "none"

Next ==
    \/ RunTask
    \/ \E o \in Owners : Fire(o)
    \/ Tick
    \/ RelayResume
    \/ LockGranted
    \/ \E p \in Owners, outcome \in {"ok", "open_failed"} : PersistDone(p, outcome)
    \/ NfcLoopHead
    \/ \E card \in Cards \cup {"none"} : NfcRead(card)
    \/ \E answer \in Answers : NfcAuthReply(answer)
    \/ NfcFault
    \/ \E action \in {"open_turnstile", "other"},
          direction \in {"in", "out", "up", "absent"} : WsCommand(action, direction)
    \/ \E up \in BOOLEAN : ConnectivityChange(up)
    \/ \E wl \in SUBSET Cards : WhitelistChange(wl)

Spec == Init /\ [][Next]_vars

(* ------------------------------------------------------------------------ *)
(* SpecLoops: the four activities started by TurnstileController.start and  *)
(* a shutdown request, with a backend that stays reachable (probes answer   *)
(* or raise), so that no event is queued and the drain finds nothing.       *)
(* ------------------------------------------------------------------------ *)
Loops == {"nfc", "mon", "upd"}

InitLoops ==
    /\ config \in [DEVICE_TYPE : {"turnstile"},
                   FALLBACK_MODE_ENABLED : {TRUE},
                   RELAY_OPEN_DURATION : {1},
                   AUTO_UPDATE_ENABLED : BOOLEAN,
                   MAX_OFFLINE_LOGS : {MAX_OFFLINE_LOGS}]
    /\ cancelledIsException \in BOOLEAN
    /\ running = TRUE
    /\ connection_online = TRUE
    /\ whitelist = Cards
    /\ cache = <<>>
    /\ disk = NoDocument
    /\ lock = "none"
    /\ lockq = <<>>
    /\ run = [o \in Owners |-> NoRun]
    /\ nextId = 1
    /\ snap = [p \in Drainers |-> <<>>]
    /\ ws_running = TRUE
    /\ relay_states = [c \in Channels |-> FALSE]
    /\ relay_tasks = [c \in Channels |-> "none"]
    /\ tasks = [o \in Owners |-> NoTask]
    /\ ready = <<>>
    /\ pc = [p \in Procs |->
                CASE p = "ws" -> "listen" [] p = "stop" -> "idle" [] OTHER -> "start"]
    /\ ret = [o \in Owners |-> "none"]
    /\ age = [c \in Channels |-> 0]
    /\ win = [c \in Channels |-> 0]
    /\ superseding = [c \in Channels |-> "none"]
    /\ stopped = {}
    /\ obs = NoRun
    /\ UpdaterIdle
    /\ current_reconnect_attempts = 0
    /\ websocket = IF pc["ws"] = "listen" THEN "open" ELSE "none"

NextLoops ==
    \/ RunTask
    \/ \E o \in Owners : Fire(o)
    \/ Tick
    \/ RelayResume
    \/ NfcLoopHead
    \/ \E card \in Cards \cup {"none"} : NfcRead(card)
    \/ \E answer \in Answers : NfcAuthReply(answer)
    \/ NfcFault
    \/ \E action \in {"open_turnstile", "other"},
          direction \in {"in", "out"} : WsCommand(action, direction)
    \/ WsClosed
    \/ MonLoopHead
    \/ \E res \in {"up", "raise"} : MonProbeReply(res)
    \/ UpdLoopHead
    \/ \E raised \in BOOLEAN : UpdReturn(raised)
    \/ StopRequest
    \/ StopCleanup
    \/ StopGathered

SpecLoops == InitLoops /\ [][NextLoops]_vars

(* C3: the card-poll, connectivity-monitor and update loops end only on a      *)
(* shutdown request: a loop that is no longer running (it left its `while`, or *)
(* its task ended with an exception that no loop boundary caught) implies that *)
(* stop() has been called.                                                     *)
C3_OnlyShutdownEndsLoops ==
    \A p \in Loops : pc[p] \in {"done", "dead"} => pc["stop"] /= "idle"

(* ------------------------------------------------------------------------ *)
(* The pipeline runs the claims below speak about                            *)
(* ------------------------------------------------------------------------ *)

(* Runs whose decision is taken: waiting in the logger (stage "log"), or just *)
(* arrived at the actuation step (obs, stage "open" or "end").                *)
Decided ==
    {r \in {obs} \cup {run[o] : o \in Owners} :
        r.stage \in {"log", "open", "end"} /\ r.card /= "none"}

CardRuns == {r \in Decided : r.card \in Cards}

Acted == {r \in Decided : r.stage \in {"open", "end"}}

(* C4: a card run in which the backend answered without authorized=true, or in *)
(* which the check failed or the device was offline while fallback is disabled *)
(* or the card is not whitelisted, activates no relay channel.                 *)
C4_DefaultsClosed ==
    \A r \in CardRuns :
        (\/ r.on /\ r.ans \in {"false", "absent"}
         \/ (~r.on \/ r.ans = "raise") /\ (~config.FALLBACK_MODE_ENABLED \/ ~r.inwl))
        => (r.act = 0 /\ pc["nfc"] /= "relay")

(* C4 witness: a whitelisted card, fallback enabled, the backend answered without *)
(* the authorized key: the run ended without actuation.                           *)
C4_Witness ==
    /\ obs.stage = "end" /\ obs.card \in Cards
    /\ obs.on /\ obs.ans = "absent" /\ obs.inwl /\ config.FALLBACK_MODE_ENABLED
    /\ obs.act = 0 /\ pc["nfc"] /= "relay"

(* C5: online and the backend answered authorized=true: the decision is        *)
(* authorized, for every card, whitelist content and fallback setting.         *)
C5_BackendAuthorizes ==
    \A r \in CardRuns : (r.on /\ r.ans = "true") => r.auth

(* C5 witness: such a run for a card that is not whitelisted reached actuation. *)
C5_Witness ==
    /\ obs.stage = "open" /\ obs.card \in Cards
    /\ obs.on /\ obs.ans = "true" /\ ~obs.inwl /\ obs.auth /\ obs.act /= 0

(* C6: offline, the decision is whitelist membership when fallback is enabled  *)
(* and denied when it is disabled.                                             *)
C6_OfflineFallback ==
    \A r \in CardRuns :
        ~r.on => (r.auth <=> (config.FALLBACK_MODE_ENABLED /\ r.inwl))

(* C6 witness: offline, fallback enabled, whitelisted card: authorized and opened. *)
C6_Witness ==
    /\ obs.stage = "open" /\ obs.card \in Cards
    /\ ~obs.on /\ obs.inwl /\ config.FALLBACK_MODE_ENABLED /\ obs.auth /\ obs.act /= 0

(* C7: online but check_access raised: the decision is whitelist membership if *)
(* fallback is enabled and denied otherwise, and the run goes on to hand over  *)
(* its event (the failure does not leave the pipeline).                        *)
C7_FailureFallsBack ==
    \A r \in CardRuns :
        (r.on /\ r.ans = "raise")
        => /\ r.auth <=> (config.FALLBACK_MODE_ENABLED /\ r.inwl)
           /\ r.nlog = 1
           /\ pc["nfc"] \notin {"backoff", "dead"}

(* C7 witness: the check raised, the card is whitelisted, fallback enabled: opened. *)
C7_Witness ==
    /\ obs.stage = "open" /\ obs.card \in Cards
    /\ obs.on /\ obs.ans = "raise" /\ obs.inwl /\ obs.auth /\ obs.nlog = 1

(* C8: every card run has handed exactly one event to log_access, no relay     *)
(* call of the run precedes the hand-over, the event's authorized flag is the  *)
(* decision and its offline_mode flag is the negation of connection_online at  *)
(* the time the event was built; this holds for denied runs too.               *)
C8_OneEventPerRun ==
    \A r \in CardRuns :
        /\ r.nlog = 1
        /\ r.evAuth = r.auth
        /\ r.offl = ~r.onEv
        /\ r.stage = "log" => (r.act = 0 /\ pc["nfc"] /= "relay")

(* C8 witness: a denied run that started online and built its event offline. *)
C8_Witness ==
    /\ obs.stage = "end" /\ obs.card \in Cards
    /\ ~obs.auth /\ obs.nlog = 1 /\ obs.on /\ obs.offl /\ ~obs.evAuth

(* C9 as stated: every authorized event, from a card or a manual open, gets the *)
(* channel of its direction (in -> 1, out -> 2) activated for the configured    *)
(* duration, on a turnstile and on a door.                                      *)
C9_EveryDirectionActivates ==
    \A r \in Acted :
        (r.auth /\ r.dir \in {"in", "out"})
        => /\ r.act = (IF r.dir = "in" THEN 1 ELSE 2)
           /\ r.actdur = config.RELAY_OPEN_DURATION

(* C9 amended: an authorized event activates the channel of its direction for  *)
(* the configured duration when the device has that channel (in -> 1 always,   *)
(* out -> 2 on a turnstile); otherwise (out on a door, any other direction) it *)
(* is logged and no channel is activated.                                      *)
C9_MappedWhenConfigured ==
    \A r \in Acted :
        r.auth =>
            IF r.dir = "in" \/ (r.dir = "out" /\ config.DEVICE_TYPE = "turnstile")
            THEN /\ r.act = (IF r.dir = "in" THEN 1 ELSE 2)
                 /\ r.actdur = config.RELAY_OPEN_DURATION
                 /\ pc[r.p] = "relay"
                 /\ relay_tasks[r.act] = r.p
                 /\ tasks[r.p].ch = r.act /\ tasks[r.p].dur = r.actdur
            ELSE r.act = 0 /\ pc[r.p] /= "relay"

(* C9 witness: a manual open with direction out on a door: logged, nothing opened. *)
C9_Witness ==
    /\ obs.stage = "end" /\ obs.p = "ws" /\ obs.card = "MANUAL_OPEN"
    /\ obs.dir = "out" /\ config.DEVICE_TYPE = "door"
    /\ obs.auth /\ obs.nlog = 1 /\ obs.act = 0

(* C10: when the file write of an event failed, log_access still returned and  *)
(* the actuation step ran as it does without the failure: an authorized event  *)
(* had its channel activated.                                                  *)
C10_PersistFailureDoesNotBlock ==
    \A r \in Acted :
        r.perr => /\ r.auth => r.act = OpenChannel(r.dir)
                  /\ r.act /= 0 => pc[r.p] = "relay" /\ tasks[r.p].ch = r.act

(* C10 witness: an authorized card event whose file write failed; channel opened. *)
C10_Witness ==
    /\ obs.stage = "open" /\ obs.card \in Cards
    /\ obs.perr /\ obs.offl /\ obs.auth /\ obs.act /= 0 /\ pc["nfc"] = "relay"

(* ------------------------------------------------------------------------ *)
(* SpecLog: the access logger under its three users (card-poll loop, remote *)
(* command handler, connection monitor with its drain), with failing file    *)
(* writes and with the process killed and started again at any point.  The   *)
(* device is a door without fallback whose commands name the exit, so that   *)
(* offline events are queued and no relay is driven; the capacity of the     *)
(* queue is any value up to MAX_OFFLINE_LOGS, and the file found at the      *)
(* first start is any document the program can have left there.              *)
(* ------------------------------------------------------------------------ *)

(* ---- AccessLogger._load_offline_logs (lines 92-111): the cache it leaves ---- *)
LoadOfflineLogs(d) ==
    CASE d.kind = "list" -> d.logs
      [] d.kind = "object" -> NotAList  \* json.loads gives a dict, len() accepts it
      [] OTHER -> <<>>                  \* missing, blank; or lines 108-111: not JSON
                                        \* (json.loads raises) or no len() (line 106 raises)

(* Events stored by an earlier run of the program are numbered below 0. *)
(* What the program itself can have left on the file: nothing, a list, a broken write. *)
StoredDocuments ==
    {NoDocument, BlankDocument, GarbageDocument,
     [kind |-> "list", logs |-> <<>>], [kind |-> "list", logs |-> <<-1>>],
     [kind |-> "list", logs |-> <<-2, -1>>]}

(* What a kill leaves of the file: as it was, unless _persist_offline_logs is between  *)
(* its open(..., 'w') and the end of its write: then also truncated, cut short or whole. *)
DocumentsAfterKill ==
    IF \E p \in Procs : pc[p] \in {"persist", "persist_clear"}
    THEN {disk, BlankDocument, GarbageDocument, [kind |-> "list", logs |-> cache]}
    ELSE {disk}

LoggerUsers == {"nfc", "ws", "mon"}

(* The process is killed (crash, power loss) and started again: initialize() loads  *)
(* the file as the kill left it, start() runs the activities anew.  The whitelist   *)
(* file stays; obs marks the state as one in which the program has just started.   *)
CrashRestart(d) ==
    /\ d \in DocumentsAfterKill
    /\ disk' = d
    /\ cache' = LoadOfflineLogs(d)
    /\ running' = TRUE
    /\ connection_online' = FALSE
    /\ lock' = "none"
    /\ lockq' = <<>>
    /\ run' = [o \in Owners |-> NoRun]
    /\ snap' = [p \in Drainers |-> <<>>]
    /\ ready' = <<>>
    /\ pc' = [p \in Procs |->
                 CASE p \in {"nfc", "mon"} -> "start" [] p = "ws" -> "listen" [] OTHER -> "off"]
    /\ obs' = [NoRun EXCEPT !.stage = "started"]
    /\ UNCHANGED <<cfgVars, updVars, wsVars, tmVars, whitelist, nextId, ws_running, relay_states,
                   relay_tasks, tasks, ret>>

(* After initialize(), with the file as it was found; the first probe is the monitor's. *)
Booted ==
    /\ cancelledIsException = FALSE
    /\ running = TRUE
    /\ connection_online = FALSE
    /\ whitelist = {}
    /\ cache = LoadOfflineLogs(disk)
    /\ lock = "none"
    /\ lockq = <<>>
    /\ run = [o \in Owners |-> NoRun]
    /\ nextId = 1
    /\ snap = [p \in Drainers |-> <<>>]
    /\ ws_running = TRUE
    /\ relay_states = [c \in Channels |-> FALSE]
    /\ relay_tasks = [c \in Channels |-> "none"]
    /\ tasks = [o \in Owners |-> NoTask]
    /\ ready = <<>>
    /\ pc = [p \in Procs |->
                CASE p \in {"nfc", "mon"} -> "start" [] p = "ws" -> "listen" [] OTHER -> "off"]
    /\ ret = [o \in Owners |-> "none"]
    /\ age = [c \in Channels |-> 0]
    /\ win = [c \in Channels |-> 0]
    /\ superseding = [c \in Channels |-> "none"]
    /\ stopped = {}
    /\ obs = [NoRun EXCEPT !.stage = "started"]
    /\ UpdaterIdle
    /\ current_reconnect_attempts = 0
    /\ websocket = IF pc["ws"] = "listen" THEN "open" ELSE "none"

InitLog ==
    /\ config \in [DEVICE_TYPE : {"door"},
                   FALLBACK_MODE_ENABLED : {FALSE},
                   RELAY_OPEN_DURATION : {1},
                   AUTO_UPDATE_ENABLED : {TRUE},
                   MAX_OFFLINE_LOGS : 0..MAX_OFFLINE_LOGS]
    /\ disk \in StoredDocuments
    /\ Booted

NextLog ==
    \/ NfcLoopHead
    \/ \E card \in Cards \cup {"none"} : NfcRead(card)
    \/ \E answer \in {"false", "absent", "raise"} : NfcAuthReply(answer)
    \/ \E action \in {"open_turnstile", "other"} : WsCommand(action, "out")
    \/ LockGranted
    \/ \E p \in LoggerUsers, outcome \in {"ok", "open_failed", "write_failed"} :
          PersistDone(p, outcome)
    \/ MonLoopHead
    \/ \E res \in {"up", "down", "raise"} : MonProbeReply(res)
    \/ \E res \in {"true", "false", "raise"} : SyncReply("mon", res)
    \/ \E wl \in SUBSET Cards : MonWhitelistReply(wl)
    \/ \E d \in DocumentsAfterKill : CrashRestart(d)

SpecLog == InitLog /\ [][NextLog]_vars

(* The events of a queue. *)
Entries(q) == {q[i] : i \in 1..Len(q)}

(* The log_access call that carries event e has not returned yet. *)
InFlight(e) == \E p \in Owners : pc[p] \in {"lw_save", "persist"} /\ run[p].evid = e

(* C11: a kill at any point, also in the middle of a write of the queue file, followed *)
(* by a restart gives a queue that contains every event of the queue before the kill  *)
(* whose log_access call had returned (events evicted or cleared are no longer in it). *)
C11_CrashKeepsLoggedEvents ==
    [][obs'.stage = "started" /\ cache /= NotAList
         => \A e \in Entries(cache) : ~InFlight(e) => e \in Entries(cache')]_vars

(* The step just taken completed a mutation of the queue: an append (with its eviction) *)
(* or a clear, file write included.                                                     *)
AppendDone == obs.stage \in {"end", "open"} /\ obs.offl /\ cache /= NotAList
ClearDone == obs.stage = "cleared"

C13_KeepsNewestAtCapacity ==
    [][\A p \in Owners :
          (pc[p] /= "persist" /\ pc'[p] = "persist" /\ Len(cache) = config.MAX_OFFLINE_LOGS)
          => LET a == Append(cache, run'[p].evid)
             IN /\ Len(cache') = config.MAX_OFFLINE_LOGS
                /\ \A i \in 1..Len(cache') : cache'[i] = a[i + 1]]_vars

(* C14: under every interleaving of log_access calls (and of the drain) an offline event *)
(* is in the queue once and never twice: while its call writes the file the caller holds *)
(* the lock and its event is still the newest entry, as it is when the call returns, so  *)
(* no other append or clear has fallen between its append, its eviction and its write;   *)
(* a clear that is being written holds the lock over a queue that is still empty.        *)
C14_AppendedOnceUninterleaved ==
    /\ \A i, j \in 1..Len(cache) : i /= j => cache[i] /= cache[j]
    /\ \A p \in Owners :
          pc[p] = "persist" =>
             /\ lock = p
             /\ cache /= <<>>
             /\ cache[Len(cache)] = run[p].evid
    /\ \A p \in Drainers : pc[p] = "persist_clear" => lock = p /\ cache = <<>>
    /\ AppendDone => cache /= <<>> /\ cache[Len(cache)] = obs.evid

(* C14 witness: a log_access call is writing the file while the other one waits for the  *)
(* lock with its event and the drain waits behind it for its snapshot.                   *)
C14_Witness ==
    \E p, q \in Owners :
       /\ pc[p] = "persist"
       /\ pc[q] = "lw_save"
       /\ lockq = <<q, "mon">>
       /\ run[q].evid \notin Entries(cache)

(* C15: a drain starts to clear the queue only in the step in which sync_offline_logs  *)
(* answered true; when it answered false or raised, the drain is over and has changed   *)
(* neither the queue in memory nor the file; and a queue is emptied by nothing but a    *)
(* confirmed clear (or a restart that loads the file).                                  *)
C15_ClearOnlyAfterConfirmation ==
    [][/\ (obs'.stage = "synced" /\ obs'.ans /= "true")
            => /\ cache' = cache /\ disk' = disk /\ lock' = lock /\ lockq' = lockq
               /\ pc'[obs'.p] = AfterDrainPc(obs'.p)
       /\ \A p \in Drainers :
             (pc[p] \notin {"lw_clear", "persist_clear"}
                 /\ pc'[p] \in {"lw_clear", "persist_clear"})
             => obs'.stage = "synced" /\ obs'.p = p /\ obs'.ans = "true"
       /\ (cache /= <<>> /\ cache' = <<>>)
             => \/ obs'.stage = "started"
                \/ \E p \in Drainers : pc'[p] = "persist_clear"]_vars

(* C15 witness: the backend refused the snapshot of a queue of two events; the drain is *)
(* over and the queue, in memory and on the file, is what the snapshot was.             *)
C15_Witness ==
    /\ obs.stage = "synced" /\ obs.ans = "false"
    /\ pc["mon"] = "wl"
    /\ Len(cache) = MAX_OFFLINE_LOGS
    /\ snap["mon"] = cache
    /\ disk = [kind |-> "list", logs |-> cache]

(* ------------------------------------------------------------------------ *)
(* SpecLoad: the start of the logger on any file content, also JSON that is  *)
(* not a list, followed by offline card reads and commands, failing writes   *)
(* and restarts.  The backend stays unreachable.                             *)
(* ------------------------------------------------------------------------ *)
AnyDocuments == StoredDocuments \cup {ObjectDocument, ScalarDocument}

InitLoad ==
    /\ config \in [DEVICE_TYPE : {"door"},
                   FALLBACK_MODE_ENABLED : {FALSE},
                   RELAY_OPEN_DURATION : {1},
                   AUTO_UPDATE_ENABLED : {TRUE},
                   MAX_OFFLINE_LOGS : {MAX_OFFLINE_LOGS}]
    /\ disk \in AnyDocuments
    /\ Booted

NextLoad ==
    \/ NfcLoopHead
    \/ \E card \in Cards \cup {"none"} : NfcRead(card)
    \/ \E action \in {"open_turnstile", "other"} : WsCommand(action, "out")
    \/ LockGranted
    \/ \E p \in Owners, outcome \in {"ok", "open_failed", "write_failed"} :
          PersistDone(p, outcome)
    \/ \E d \in DocumentsAfterKill : CrashRestart(d)

SpecLoad == InitLoad /\ [][NextLoad]_vars

(* len(self._offline_logs_cache) *)
QueueLength(q) == IF q = NotAList THEN 0 ELSE Len(q)

(* C16: when the program has started, the queue is the stored list if the file holds   *)
(* one and has no entries otherwise (file missing, blank or malformed), and from then  *)
(* on the logger accepts appends: an offline event whose log_access call has returned  *)
(* is in the queue, and on the file too when its write succeeded.                      *)
C16_StartsFromDocumentAndAccepts ==
    /\ obs.stage = "started" =>
          IF disk.kind = "list" THEN cache = disk.logs ELSE QueueLength(cache) = 0
    /\ (obs.stage \in {"end", "open"} /\ obs.offl) =>
          /\ obs.evid \in Entries(cache)
          /\ (disk = Persist("ok") \/ obs.perr)

(* C17: the snapshot returned by get_offline_logs is the queue as it stands between two *)
(* complete logger operations (nobody is between its mutation and the end of its file   *)
(* write), and once returned it changes no more: the snapshot a drainer holds changes   *)
(* only by its own next get_offline_logs call (or is gone with the process at a restart). *)
C17_SnapshotIsStable ==
    [][\A p \in Drainers :
          snap'[p] /= snap[p] =>
             \/ obs'.stage = "started"
             \/ /\ pc[p] \in {"probe", "gather", "lw_get"}
                /\ snap'[p] = cache
                /\ cache' = cache
                /\ lock' = "none"
                /\ \A q \in Procs : pc'[q] \notin {"persist", "persist_clear"}]_vars

(* C17 witness: after a snapshot was returned an event was appended and written; the *)
(* snapshot still is the shorter queue it was taken from.                            *)
C17_Witness ==
    /\ AppendDone /\ ~obs.perr
    /\ snap["mon"] /= <<>>
    /\ cache = Append(snap["mon"], obs.evid)

(* ------------------------------------------------------------------------ *)
(* SpecCancel: the relay controller behind its interface as in SpecRelay,    *)
(* every activation asking for the longest window, so that a cancellation    *)
(* (a newer call, emergency_stop_all) can fall at every point of a window.   *)
(* ------------------------------------------------------------------------ *)
NextCancel ==
    \/ RunTask
    \/ \E o \in Owners : Fire(o)
    \/ Tick
    \/ \E o \in Owners, c \in Channels : ClientActivate(o, c, MaxDur)
    \/ ClientResume
    \/ ClientEmergencyStop

SpecCancel == InitRelay /\ [][NextCancel]_vars

C19_EmergencyStopIsFinal ==
    [][/\ ClientEmergencyStop =>
             /\ \A c \in relay_pins : ~relay_states'[c]
             /\ \A o \in Owners : tasks'[o].st \notin {"new", "sleep", "fired"}
       /\ \A o \in stopped :
             (tasks[o].st \in {"cancel", "new_c"} /\ tasks'[o].st /= tasks[o].st)
             => /\ tasks'[o].st = "cancelled"
                /\ relay_states' = relay_states]_vars

(* C19 witness: emergency_stop_all has cancelled an activation that slept with its     *)
(* channel energized; the channel is off, and before the cancelled task has ended a new *)
(* activation was requested on the same channel.                                        *)
C19_Witness ==
    \E o \in Owners, p \in stopped :
       /\ o /= p
       /\ tasks[p].st = "cancel" /\ tasks[p].rem > 0
       /\ tasks[o].st = "new" /\ tasks[o].ch = tasks[p].ch
       /\ ~relay_states[tasks[p].ch]

(* ------------------------------------------------------------------------ *)
(* SpecStop: a shutdown request (TurnstileController.stop) while the device  *)
(* is online, events of an earlier offline period are still queued and       *)
(* remote commands keep opening the passage until the connection is closed.  *)
(* ------------------------------------------------------------------------ *)
InitStop ==
    /\ config \in [DEVICE_TYPE : {"turnstile"},
                   FALLBACK_MODE_ENABLED : {TRUE},
                   RELAY_OPEN_DURATION : {1},
                   AUTO_UPDATE_ENABLED : {TRUE},
                   MAX_OFFLINE_LOGS : {MAX_OFFLINE_LOGS}]
    /\ cancelledIsException \in BOOLEAN
    /\ running = TRUE
    /\ connection_online = TRUE
    /\ whitelist = Cards
    /\ disk \in {[kind |-> "list", logs |-> <<-1>>], [kind |-> "list", logs |-> <<-2, -1>>]}
    /\ cache = LoadOfflineLogs(disk)
    /\ lock = "none"
    /\ lockq = <<>>
    /\ run = [o \in Owners |-> NoRun]
    /\ nextId = 1
    /\ snap = [p \in Drainers |-> <<>>]
    /\ ws_running = TRUE
    /\ relay_states = [c \in Channels |-> FALSE]
    /\ relay_tasks = [c \in Channels |-> "none"]
    /\ tasks = [o \in Owners |-> NoTask]
    /\ ready = <<>>
    /\ pc = [p \in Procs |->
                CASE p = "nfc" -> "start" [] p = "ws" -> "listen" [] p = "stop" -> "idle"
                  [] OTHER -> "off"]
    /\ ret = [o \in Owners |-> "none"]
    /\ age = [c \in Channels |-> 0]
    /\ win = [c \in Channels |-> 0]
    /\ superseding = [c \in Channels |-> "none"]
    /\ stopped = {}
    /\ obs = NoRun
    /\ UpdaterIdle
    /\ current_reconnect_attempts = 0
    /\ websocket = IF pc["ws"] = "listen" THEN "open" ELSE "none"

NextStop ==
    \/ RunTask
    \/ \E o \in Owners : Fire(o)
    \/ Tick
    \/ RelayResume
    \/ NfcLoopHead
    \/ \E card \in Cards \cup {"none"} : NfcRead(card)
    \/ \E answer \in Answers : NfcAuthReply(answer)
    \/ \E action \in {"open_turnstile", "other"},
          direction \in {"in", "out"} : WsCommand(action, direction)
    \/ WsClosed
    \/ StopRequest
    \/ StopCleanup
    \/ StopGathered
    \/ \E res \in {"true", "false", "raise"} : SyncReply("stop", res)
    \/ \E outcome \in {"ok", "open_failed", "write_failed"} : PersistDone("stop", outcome)

SpecStop == InitStop /\ [][NextStop]_vars

(* stop() line 85 has run: NFCReaderManager.cleanup reset the readers and called *)
(* GPIO.cleanup().                                                                *)
ReaderReleased ==
    pc["stop"] \in {"gather", "lw_get", "sync", "lw_clear", "persist_clear", "stopped"}

(* stop() line 86 has returned: RelayController.cleanup released the relay pins. *)
RelayReleased ==
    pc["stop"] \in {"lw_get", "sync", "lw_clear", "persist_clear", "stopped"}

(* stop() has not yet finished the drain that lines 89-90 owe to an online device. *)
DrainOwed == connection_online /\ pc["stop"] /= "stopped"

(* C20: shutdown releases the hardware last: when the reader or the relay hardware has *)
(* been released, the activities have been told to stop, no relay timer is pending any  *)
(* more and the drain owed to an online device is over.                                 *)
C20_HardwareReleasedLast ==
    (ReaderReleased \/ RelayReleased) =>
       /\ ~running
       /\ \A o \in Owners : tasks[o].st \notin {"new", "sleep", "fired"}
       /\ ~DrainOwed

(* ------------------------------------------------------------------------ *)
(* The connection monitor's side effects, under SpecLog.                     *)
(* ------------------------------------------------------------------------ *)
(* The monitor is inside _sync_offline_data / inside _update_whitelist. *)
MonDraining == pc["mon"] \in {"lw_get", "sync", "lw_clear", "persist_clear"}
MonRefreshing == pc["mon"] = "wl"

(* C21: the monitor starts the offline-queue drain, and after it the whitelist *)
(* refresh, exactly in the step in which a probe moves connection_online from  *)
(* false to true: a probe that finds the device online already, one that turns *)
(* it offline and one that raises start neither; no other step of the monitor  *)
(* starts them; and a drain that was started is always followed by the refresh.*)
C21_EdgeTriggersDrainAndRefresh ==
    [][ /\ (pc["mon"] = "probe" /\ pc'["mon"] /= "probe")
              => ((MonDraining' \/ MonRefreshing')
                     <=> (~connection_online /\ connection_online'))
        /\ ((MonDraining' \/ MonRefreshing') /\ ~(MonDraining \/ MonRefreshing))
              => pc["mon"] = "probe"
        /\ (MonDraining /\ ~MonDraining')
              => (MonRefreshing' \/ obs'.stage = "started") ]_vars

(* C21 witness: the device was online already with events still queued, the   *)
(* probe answered online again, and the monitor went to sleep without a drain. *)
C21_Witness ==
    /\ obs.stage = "probed" /\ obs.on /\ obs.ans = "up"
    /\ connection_online /\ cache /= <<>> /\ cache /= NotAList
    /\ pc["mon"] = "sleep"

(* ------------------------------------------------------------------------ *)
(* Remote commands, under Spec.                                              *)
(* ------------------------------------------------------------------------ *)
(* The runs of the remote-command handler that have reached their last step. *)
ManualOpens == {r \in Acted : r.p = "ws" /\ r.cmd = "open_turnstile"}

(* C22 as stated: every open_turnstile command yields one MANUAL_OPEN event with *)
(* authorized = true, logged once, decided without the backend check and the     *)
(* whitelist, and the channel of the requested direction (in -> 1, out -> 2) is  *)
(* activated, on every device type, online and offline, with or without fallback.*)
C22_ManualOpenAlwaysActuates ==
    \A r \in ManualOpens :
        /\ r.card = "MANUAL_OPEN" /\ r.evAuth /\ r.nlog = 1
        /\ r.ans = "none" /\ ~r.inwl
        /\ r.dir \in {"in", "out"} => r.act = (IF r.dir = "in" THEN 1 ELSE 2)

(* C22 amended: every open_turnstile command yields one MANUAL_OPEN event with   *)
(* authorized = true, logged once (queued when the device is offline), decided   *)
(* without the backend check and the whitelist whatever the connectivity and the *)
(* fallback setting; the channel of the requested direction is activated when the*)
(* device has it (in -> 1, a missing direction counts as in; out -> 2 on a       *)
(* turnstile); out on a door and any other direction activate nothing.           *)
C22_ManualOpenActuatesWhenMapped ==
    /\ pc["ws"] /= "auth"
    /\ \A r \in ManualOpens :
        /\ r.card = "MANUAL_OPEN" /\ r.auth /\ r.evAuth /\ r.nlog = 1 /\ r.evid > 0
        /\ r.ans = "none" /\ ~r.inwl
        /\ r.offl = ~r.on
        /\ (r.offl /\ ~r.perr) => r.evid \in Entries(cache)
        /\ IF r.dir = "in" \/ (r.dir = "out" /\ config.DEVICE_TYPE = "turnstile")
           THEN /\ r.act = (IF r.dir = "in" THEN 1 ELSE 2)
                /\ pc["ws"] = "relay" /\ relay_tasks[r.act] = "ws"
                /\ tasks["ws"].ch = r.act
           ELSE r.act = 0 /\ pc["ws"] = "listen"

(* C22 witness: offline, fallback disabled, card not needed: a manual open with  *)
(* direction out on a turnstile is queued and channel 2 is activated.            *)
C22_Witness ==
    /\ obs.p = "ws" /\ obs.cmd = "open_turnstile" /\ obs.stage = "open"
    /\ obs.dir = "out" /\ obs.act = 2 /\ config.DEVICE_TYPE = "turnstile"
    /\ obs.offl /\ ~config.FALLBACK_MODE_ENABLED /\ whitelist = {}
    /\ obs.evid \in Entries(cache)

(* C23: a command whose action is not open_turnstile is answered with status     *)
(* 'success' in the step that receives it, and that step changes nothing: no     *)
(* event is created or queued, no relay task is created or cancelled, no channel *)
(* changes, the connectivity state and every coroutine stay where they are.      *)
C23_UnknownCommandOnlyAcknowledged ==
    [][ (obs' /= obs /\ obs'.p = "ws" /\ obs'.cmd \notin {"none", "open_turnstile"})
           => /\ obs'.stage = "acked" /\ obs'.ans = "success"
              /\ obs'.nlog = 0 /\ obs'.evid = 0 /\ obs'.act = 0
              /\ UNCHANGED <<cache, disk, lock, lockq, nextId, run, snap, relay_states,
                             relay_tasks, tasks, ready, connection_online, whitelist,
                             running, ws_running, pc, ret>> ]_vars

(* C23 witness: an unknown command acknowledged while events are queued and a    *)
(* channel is energized for the card-poll loop.                                  *)
C23_Witness ==
    /\ obs.stage = "acked" /\ obs.cmd = "other" /\ obs.ans = "success"
    /\ cache /= <<>> /\ \E c \in Channels : relay_states[c] /\ relay_tasks[c] = "nfc"

(* ------------------------------------------------------------------------ *)
(* AutoUpdater.  A step runs an invocation from one suspension point to the  *)
(* next: the backend calls, the file writes of aiofiles and the subprocesses *)
(* of the hooks and of pip.  A hook or a dependency file that the package    *)
(* does not have is the outcome "skipped" of its step.                       *)
(* ------------------------------------------------------------------------ *)
restVars == <<cfgVars, wsVars, relayVars, tmVars, logVars, ctlVars, pc, ret>>

(* _verify_update, lines 154-177: a hash or a size that is supplied must match. *)
VerifyUpdate_SkipsHash(data, info) ==
    info.size /= 0 => Size(data) = info.size

VerifyUpdate(data, info) ==
    /\ info.hash /= "absent" => SHA256(data) = info.hash
    /\ info.size /= 0 => Size(data) = info.size

(* _cleanup_old_backups, lines 398-410 *)
CleanupOldBackups(b) ==
    IF Len(b) > BACKUPS_KEPT THEN SubSeq(b, Len(b) - BACKUPS_KEPT + 1, Len(b)) ELSE b

(* _create_backup, lines 179-199: the archives afterwards.  "ok": the tree is   *)
(* archived and the oldest archives are removed; "cut_short": the archive was   *)
(* created and writing it failed; "failed": no archive could be created.        *)
CreateBackup(outcome) ==
    CASE outcome = "ok" -> CleanupOldBackups(Append(backups, app))
      [] outcome = "cut_short" -> Append(backups, BrokenArchive)
      [] OTHER -> backups

(* _restore_backup, lines 373-396: the tree afterwards.  Without an archive it  *)
(* returns at once; otherwise the tree is removed and the archive created last  *)
(* is extracted in its place.                                                   *)
RestoreBackup(outcome) ==
    IF backups = <<>> THEN app
    ELSE LET latest == backups[Len(backups)]
         IN IF outcome = "ok"
            THEN (IF latest = BrokenArchive THEN PartialTree ELSE latest)
            ELSE NoTree

(* BackendClient.report_update_status(id, status, error) gives no result: a    *)
(* report that cannot be delivered raises.                                     *)
ReportOutcomes == {"returned", "raised"}

(* report_update_status is called with this status. *)
Report(s, status) == [s EXCEPT !.reports = Append(@, status)]

(* A phase raised: lines 140-146, the 'failed' report is sent and awaited. *)
Fail(s, phase) == [Report(s, "failed") EXCEPT !.pc = "report_failed", !.phase = phase]

(* check_and_update is invoked: lines 55-68, up to the await of check_updates. *)
CheckAndUpdate(c) ==
    /\ session[c].pc = "idle"
    /\ nchecks < MaxChecks
    /\ nchecks' = nchecks + 1
    /\ session' = [session EXCEPT ![c] =
           IF updating THEN [NoSession EXCEPT !.result = "skipped"]
           ELSE IF ~config.AUTO_UPDATE_ENABLED THEN [NoSession EXCEPT !.result = "disabled"]
           ELSE [NoSession EXCEPT !.pc = "checking"]]
    /\ obs' = NoRun
    /\ UNCHANGED <<updating, app, backups, restart_required, restVars>>

(* check_updates raised: lines 87-88. *)
CheckFailed(c) ==
    /\ session[c].pc = "checking"
    /\ session' = [session EXCEPT ![c] = [@ EXCEPT !.pc = "idle", !.result = "check_failed"]]
    /\ obs' = NoRun
    /\ UNCHANGED <<updating, app, backups, restart_required, nchecks, restVars>>

(* check_updates answered: lines 70-85; an offer opens the session: lines 90-100, *)
(* up to the await of the 'started' report.                                       *)
CheckReply(c, info) ==
    /\ session[c].pc = "checking"
    /\ IF info.present /\ info.available
       THEN /\ updating' = TRUE
            /\ session' = [session EXCEPT ![c] =
                   Report([@ EXCEPT !.pc = "report_started", !.info = info, !.opened = TRUE,
                                    !.atOpen = app, !.bkOpen = backups], "started")]
       ELSE /\ session' = [session EXCEPT ![c] =
                   [@ EXCEPT !.pc = "idle",
                             !.result = IF info.present THEN "no_update" ELSE "no_info"]]
            /\ UNCHANGED updating
    /\ obs' = NoRun
    /\ UNCHANGED <<app, backups, restart_required, nchecks, restVars>>

(* The 'started' report returned or raised: lines 98-105. *)
StartedReply(c, raised) ==
    /\ session[c].pc = "report_started"
    /\ session' = [session EXCEPT ![c] =
           IF raised THEN Fail(@, "STARTING") ELSE [@ EXCEPT !.pc = "downloading"]]
    /\ obs' = NoRun
    /\ UNCHANGED <<updating, app, backups, restart_required, nchecks, restVars>>

(* download_update answered data (or nothing, or raised): lines 105-119 with    *)
(* _verify_update, _create_backup and _extract_update up to its file write.     *)
DownloadReply(c, data, backup) ==
    /\ session[c].pc = "downloading"
    /\ LET s == session[c]
       IN IF data \notin Payloads
          THEN /\ session' = [session EXCEPT ![c] = Fail(s, "DOWNLOADING")]
               /\ UNCHANGED backups
          ELSE IF ~VerifyUpdate(data, s.info)
          THEN /\ session' = [session EXCEPT ![c] = Fail([s EXCEPT !.data = data], "VERIFYING")]
               /\ UNCHANGED backups
          ELSE /\ (app = NoTree) => backup /= "ok"
               /\ backups' = CreateBackup(backup)
               /\ session' = [session EXCEPT ![c] =
                      IF backup = "ok"
                      THEN [s EXCEPT !.pc = "extracting", !.data = data, !.before = app,
                                     !.archived = TRUE]
                      ELSE Fail([s EXCEPT !.data = data, !.before = app], "BACKING_UP")]
    /\ obs' = NoRun
    /\ UNCHANGED <<updating, app, restart_required, nchecks, restVars>>

(* _extract_update ended: lines 209-234; _apply_update starts its pre-update hook. *)
ExtractDone(c, outcome) ==
    /\ session[c].pc = "extracting"
    /\ session' = [session EXCEPT ![c] =
           IF outcome = "ok" THEN [@ EXCEPT !.pc = "pre_hook"] ELSE Fail(@, "EXTRACTING")]
    /\ obs' = NoRun
    /\ UNCHANGED <<updating, app, backups, restart_required, nchecks, restVars>>

(* The pre-update hook ended, then _copy_update_files: lines 240-248, 266-279.  *)
(* copy "ok": the tree is the package's, with the VERSION file it ships         *)
(* (marker); "failed": the tree was removed and the copy did not complete.      *)
PreHookDone(c, hook, copy, marker) ==
    /\ session[c].pc = "pre_hook"
    /\ LET s == session[c]
       IN IF hook = "failed"
          THEN /\ session' = [session EXCEPT ![c] = Fail(s, "APPLYING")]
               /\ UNCHANGED app
          ELSE IF copy = "ok"
          THEN /\ marker \in {"none", s.info.version}
               /\ app' = Tree(s.info.id, marker)
               /\ session' = [session EXCEPT ![c] = [s EXCEPT !.pc = "post_hook"]]
          ELSE /\ app' = PartialTree
               /\ session' = [session EXCEPT ![c] = Fail(s, "APPLYING")]
    /\ obs' = NoRun
    /\ UNCHANGED <<updating, backups, restart_required, nchecks, restVars>>

(* The post-update hook ended: lines 251-258. *)
PostHookDone(c, hook) ==
    /\ session[c].pc = "post_hook"
    /\ session' = [session EXCEPT ![c] =
           IF hook = "failed" THEN Fail(@, "APPLYING") ELSE [@ EXCEPT !.pc = "pip"]]
    /\ obs' = NoRun
    /\ UNCHANGED <<updating, app, backups, restart_required, nchecks, restVars>>

(* _install_requirements ended: lines 256-264, 323-347; _update_version opens the file. *)
PipDone(c, outcome) ==
    /\ session[c].pc = "pip"
    /\ session' = [session EXCEPT ![c] =
           IF outcome = "failed" THEN Fail(@, "APPLYING") ELSE [@ EXCEPT !.pc = "version"]]
    /\ obs' = NoRun
    /\ UNCHANGED <<updating, app, backups, restart_required, nchecks, restVars>>

(* _update_version ended: lines 127-132, 349-357.  "ok": the marker holds the  *)
(* new version and the 'completed' report is sent; "open_failed": the marker is *)
(* as it was; otherwise the file was truncated and not written.                 *)
VersionWritten(c, outcome) ==
    /\ session[c].pc = "version"
    /\ LET s == session[c]
       IN CASE outcome = "ok" ->
                 /\ app' = [app EXCEPT !.version = s.info.version]
                 /\ session' = [session EXCEPT ![c] =
                        Report([s EXCEPT !.pc = "report_completed"], "completed")]
            [] outcome = "open_failed" ->
                 /\ session' = [session EXCEPT ![c] = Fail(s, "VERSION_COMMIT")]
                 /\ UNCHANGED app
            [] OTHER ->
                 /\ app' = [app EXCEPT !.version = ""]
                 /\ session' = [session EXCEPT ![c] = Fail(s, "VERSION_COMMIT")]
    /\ obs' = NoRun
    /\ UNCHANGED <<updating, backups, restart_required, nchecks, restVars>>

(* CompletedReply writing the marker whatever requires_restart says. *)
CompletedReply_AlwaysRestarts(c, raised, touched) ==
    /\ session[c].pc = "report_completed"
    /\ LET s == session[c]
       IN IF raised
          THEN /\ session' = [session EXCEPT ![c] = Fail(s, "COMPLETED_REPORT")]
               /\ UNCHANGED <<updating, restart_required>>
          ELSE /\ restart_required' = (restart_required \/ touched)
               /\ updating' = FALSE
               /\ session' = [session EXCEPT ![c] =
                      [s EXCEPT !.pc = "idle", !.result = "completed"]]
    /\ obs' = NoRun
    /\ UNCHANGED <<app, backups, nchecks, restVars>>

(* The 'completed' report returned or raised: lines 130-138, 151-152, with       *)
(* _schedule_restart (lines 359-371; touched: the marker file could be created). *)
CompletedReply(c, raised, touched) ==
    /\ session[c].pc = "report_completed"
    /\ LET s == session[c]
       IN IF raised
          THEN /\ session' = [session EXCEPT ![c] = Fail(s, "COMPLETED_REPORT")]
               /\ UNCHANGED <<updating, restart_required>>
          ELSE /\ restart_required' =
                      (restart_required \/ (s.info.restart /= "false" /\ touched))
               /\ updating' = FALSE
               /\ session' = [session EXCEPT ![c] =
                      [s EXCEPT !.pc = "idle", !.result = "completed"]]
    /\ obs' = NoRun
    /\ UNCHANGED <<app, backups, nchecks, restVars>>

(* The 'failed' report returned or raised: lines 144-152.  When it returned,     *)
(* _restore_backup runs; when it raised, the finally clause runs and the         *)
(* exception ends in check_and_update (lines 87-88).                             *)
FailedReply(c, raised, restore) ==
    /\ session[c].pc = "report_failed"
    /\ app' = IF raised THEN app ELSE RestoreBackup(restore)
    /\ updating' = FALSE
    /\ session' = [session EXCEPT ![c] =
           [@ EXCEPT !.pc = "idle", !.result = "failed", !.rollback = ~raised]]
    /\ obs' = NoRun
    /\ UNCHANGED <<backups, restart_required, nchecks, restVars>>

(* One invocation takes its next step, with the answers and outcomes in infos. *)
UpdaterStep(c, infos) ==
    \/ CheckAndUpdate(c)
    \/ CheckFailed(c)
    \/ \E info \in infos : CheckReply(c, info)
    \/ \E r \in ReportOutcomes : StartedReply(c, r = "raised")
    \/ \E data \in Payloads \cup {"empty", "raise"}, backup \in {"ok", "cut_short", "failed"} :
          DownloadReply(c, data, backup)
    \/ \E outcome \in {"ok", "failed"} : ExtractDone(c, outcome)
    \/ \E hook \in {"skipped", "ok", "failed"}, copy \in {"ok", "failed"},
          marker \in {"none", "1.0.0", "1.1.0"} : PreHookDone(c, hook, copy, marker)
    \/ \E hook \in {"skipped", "ok", "failed"} : PostHookDone(c, hook)
    \/ \E outcome \in {"skipped", "ok", "failed"} : PipDone(c, outcome)
    \/ \E outcome \in {"ok", "open_failed", "cut_short"} : VersionWritten(c, outcome)
    \/ \E r \in ReportOutcomes, touched \in BOOLEAN : CompletedReply(c, r = "raised", touched)
    \/ \E r \in ReportOutcomes, restore \in {"ok", "failed"} :
          FailedReply(c, r = "raised", restore)

(* ------------------------------------------------------------------------ *)
(* SpecUpdate: the updater as the program drives it, one invocation after    *)
(* the other from _updater_loop, on a device that may hold archives of       *)
(* earlier sessions.                                                         *)
(* ------------------------------------------------------------------------ *)
EarlierBackups == {<<>>, <<OlderTree>>,
                   <<OlderTree, OlderTree, OlderTree, OlderTree, OlderTree>>}

InitUpdate ==
    /\ config \in [DEVICE_TYPE : {"turnstile"},
                   FALLBACK_MODE_ENABLED : {FALSE},
                   RELAY_OPEN_DURATION : {1},
                   AUTO_UPDATE_ENABLED : BOOLEAN,
                   MAX_OFFLINE_LOGS : {MAX_OFFLINE_LOGS}]
    /\ cancelledIsException = FALSE
    /\ running = TRUE
    /\ connection_online = TRUE
    /\ whitelist = {}
    /\ cache = <<>>
    /\ disk = NoDocument
    /\ lock = "none"
    /\ lockq = <<>>
    /\ run = [o \in Owners |-> NoRun]
    /\ nextId = 1
    /\ snap = [p \in Drainers |-> <<>>]
    /\ ws_running = TRUE
    /\ relay_states = [c \in Channels |-> FALSE]
    /\ relay_tasks = [c \in Channels |-> "none"]
    /\ tasks = [o \in Owners |-> NoTask]
    /\ ready = <<>>
    /\ pc = [p \in Procs |-> IF p = "upd" THEN "update" ELSE "off"]
    /\ ret = [o \in Owners |-> "none"]
    /\ age = [c \in Channels |-> 0]
    /\ win = [c \in Channels |-> 0]
    /\ superseding = [c \in Channels |-> "none"]
    /\ stopped = {}
    /\ obs = NoRun
    /\ updating = FALSE
    /\ app = InstalledTree
    /\ backups \in EarlierBackups
    /\ restart_required = FALSE
    /\ session = [c \in Triggers |-> NoSession]
    /\ nchecks = 0
    /\ current_reconnect_attempts = 0
    /\ websocket = IF pc["ws"] = "listen" THEN "open" ELSE "none"

NextUpdate == UpdaterStep("periodic", UpdateInfos)

SpecUpdate == InitUpdate /\ [][NextUpdate]_vars

(* The sessions that have ended, and those that ended in failure. *)
Ended == {c \in Triggers : session[c].opened /\ session[c].pc = "idle"}
FailedIn(phases) == {c \in Ended : session[c].phase \in phases}

(* The tree was removed and an archive extracted in its place by c's session. *)
RolledBack(c) == session[c].rollback /\ backups /= <<>>

(* C25: when a session has ended after a failure in DOWNLOADING or VERIFYING,   *)
(* the application tree and its version marker are what they were when the      *)
(* session opened, whatever archives earlier sessions left, and no archive was  *)
(* restored over the tree.                                                      *)
C25_EarlyAbortLeavesTree ==
    \A c \in FailedIn({"DOWNLOADING", "VERIFYING"}) :
        app = session[c].atOpen /\ ~RolledBack(c)

(* The declared hash differs from the digest of the bytes c's session downloaded. *)
HashMismatch(c) ==
    /\ session[c].data \in Payloads
    /\ session[c].info.hash /= "absent"
    /\ SHA256(session[c].data) /= session[c].info.hash

(* C26: a session whose package declares a hash that differs from the digest of  *)
(* the downloaded bytes fails in VERIFYING, never reaches _create_backup, and    *)
(* from then on, also after it has ended, the archives are those that were there *)
(* when it opened.                                                               *)
C26_HashMismatchLeavesBackups ==
    \A c \in Triggers :
        HashMismatch(c)
           => /\ session[c].phase = "VERIFYING"
              /\ session[c].pc \in {"report_failed", "idle"}
              /\ ~session[c].archived /\ session[c].before = NoTree
              /\ backups = session[c].bkOpen

(* C26 witness: such a session has ended, rollback included, on a device that    *)
(* held five archives; the size matched, only the hash did not.                  *)
C26_Witness ==
    /\ "periodic" \in Ended /\ HashMismatch("periodic")
    /\ session["periodic"].rollback
    /\ Size(session["periodic"].data) = session["periodic"].info.size
    /\ Len(backups) = BACKUPS_KEPT

(* C27: when a session has ended after a failure in APPLYING (a hook, the tree   *)
(* replacement or the dependency install), the application tree, version marker  *)
(* included, is what it was when _create_backup began.                           *)
C27_FailedApplyRestoresTree ==
    \A c \in FailedIn({"APPLYING"}) : app = session[c].before

(* C28: every session that has ended in failure, in any phase, has called        *)
(* _restore_backup, also when the 'failed' report raised; and whenever no        *)
(* session is running the updater is idle (updating = false).                    *)
C28_FailureAlwaysRollsBack ==
    /\ \A c \in Ended : session[c].result = "failed" => session[c].rollback
    /\ (\A c \in Triggers : session[c].pc \in {"idle", "checking"}) => ~updating

(* The terminal reports of c's session, in the order they were sent. *)
IsTerminal(status) == status \in {"completed", "failed"}
TerminalReports(c) == SelectSeq(session[c].reports, IsTerminal)

(* Every phase of c's session through VERSION_COMMIT succeeded. *)
Committed(c) == session[c].phase \in {"none", "COMPLETED_REPORT"}

(* C29: a session that has ended has sent exactly one terminal report:           *)
(* 'completed' when every phase through VERSION_COMMIT succeeded, 'failed'       *)
(* otherwise; never both, never none.                                            *)
C29_OneTerminalReport ==
    \A c \in Ended :
        /\ Len(TerminalReports(c)) = 1
        /\ (TerminalReports(c)[1] = "completed") <=> Committed(c)

(* The order of the versions the model knows; a marker that is not a version is lowest. *)
VersionRank(v) == CASE v = "0.9.0" -> 1 [] v = "1.0.0" -> 2 [] v = "1.1.0" -> 3 [] OTHER -> 0

(* C30: a session is opened only on metadata that offers a version newer than    *)
(* the installed one; without metadata, or on an offer of a version that is not  *)
(* newer, the invocation ends without a session: nothing reported, downloaded or *)
(* archived, the tree as it was.                                                 *)
C30_OpensOnlyForNewerVersion ==
    \A c \in Triggers :
        session[c].opened
           => /\ session[c].info.present
              /\ VersionRank(session[c].info.version)
                    > VersionRank(CurrentVersion(session[c].atOpen))

(* ------------------------------------------------------------------------ *)
(* SpecTriggers: check_and_update behind its interface, invoked by two       *)
(* coroutines (the periodic loop and one more trigger) in any interleaving.  *)
(* ------------------------------------------------------------------------ *)
TriggerInfos == {i \in UpdateInfos : i.hash = "absent" /\ i.size = 0 /\ i.restart = "absent"}

NextTriggers == \E c \in Triggers : UpdaterStep(c, TriggerInfos)

SpecTriggers == InitUpdate /\ [][NextTriggers]_vars

(* The invocations whose session is open and has not ended. *)
InFlightSessions == {c \in Triggers : session[c].opened /\ session[c].pc /= "idle"}

MarkerWritten == ~restart_required /\ restart_required'

(* C31: the restart-request marker is created only by the step that ends a      *)
(* session as completed: every phase through VERSION_COMMIT succeeded, the       *)
(* 'completed' report returned, and requires_restart is true or absent.  No      *)
(* session that failed or was rolled back creates it, no package with            *)
(* requires_restart = false does, and no step of the updater stops or restarts   *)
(* the activities of the process.                                                *)
C31_MarkerOnlyAfterCompletion ==
    [][/\ MarkerWritten =>
             \E c \in Triggers :
                 /\ session[c].pc = "report_completed"
                 /\ session[c].phase = "none"
                 /\ session'[c].pc = "idle"
                 /\ session'[c].result = "completed"
                 /\ ~session'[c].rollback
                 /\ session'[c].reports = <<"started", "completed">>
                 /\ app'.version = session[c].info.version
                 /\ session[c].info.restart \in {"true", "absent"}
       /\ UNCHANGED <<running, ws_running, pc>>]_vars

(* A session for a package without requires_restart completed and left the marker. *)
C31_Witness ==
    /\ restart_required
    /\ \E c \in Triggers : /\ session[c].result = "completed"
                           /\ session[c].info.restart = "absent"

(* C39: a session whose version commit succeeded has ended without a rollback,   *)
(* with the new tree and the new version marker in place, whether the            *)
(* 'completed' report or the write of the restart marker succeeded or not.       *)
C39_CommittedNeverRolledBack ==
    \A c \in Ended :
        Committed(c) => /\ ~session[c].rollback
                        /\ app = Tree(session[c].info.id, session[c].info.version)

(***************************************************************************)
(* Cancelled activations and the activities that awaited them, under       *)
(* SpecLoops.                                                              *)
(***************************************************************************)

(* C32: the caller waiting on an activation that was cancelled (superseded by a  *)
(* call of the other intake on the same channel, or by emergency_stop_all)       *)
(* resumes and stays in its loop: no intake's task is ended by the cancellation, *)
(* and the sibling loops keep their `running` flag until stop() clears it.       *)
C32_CancellationEndsNoActivity ==
    /\ \A p \in Owners : pc[p] /= "dead"
    /\ pc["stop"] = "idle" => running

(***************************************************************************)
(* Energized channels and their timers, under SpecRelay.                   *)
(***************************************************************************)

(* The timed activations that have energized channel c and have not yet run     *)
(* their de-energizing step: asleep, woken by their timer, or cancelled with    *)
(* the CancelledError still to be delivered.                                    *)
TimersOwning(c) ==
    {o \in Owners : tasks[o].ch = c /\ tasks[o].st \in {"sleep", "fired", "cancel"}}

AfterWsFailure(attempts) ==
    IF ~ws_running THEN [pc |-> "done", attempts |-> attempts]
    ELSE IF attempts + 1 <= MAX_RECONNECT_ATTEMPTS
         THEN [pc |-> "reconnect", attempts |-> attempts + 1]
         ELSE [pc |-> "done", attempts |-> attempts + 1]      \* line 42: break

(* websockets.connect and _send_registration returned (lines 59-66), or one   *)
(* of them raised (lines 81-83, then start's handler).                        *)
WsConnectReply(ok) ==
    /\ pc["ws"] = "connect"
    /\ IF ok
       THEN /\ current_reconnect_attempts' = 0
            /\ websocket' = "open"
            /\ pc' = [pc EXCEPT !["ws"] = "listen"]
       ELSE LET a == AfterWsFailure(current_reconnect_attempts)
            IN /\ current_reconnect_attempts' = a.attempts
               /\ pc' = [pc EXCEPT !["ws"] = a.pc]
               /\ UNCHANGED websocket
    /\ obs' = NoRun
    /\ UNCHANGED <<cfgVars, updVars, relayVars, tmVars, logVars, ctlVars, ret>>

(* The peer closed the connection: the message loop ends or ConnectionClosed   *)
(* is caught (lines 77-80), _connect_and_listen returns and start loops.       *)
WsDropped ==
    /\ pc["ws"] = "listen"
    /\ websocket = "open"
    /\ websocket' = "closed"
    /\ pc' = [pc EXCEPT !["ws"] = IF ws_running THEN "connect" ELSE "done"]
    /\ obs' = NoRun
    /\ UNCHANGED <<cfgVars, updVars, current_reconnect_attempts, relayVars, tmVars, logVars,
                   ctlVars, ret>>

(* Line 39: the sleep before the next attempt returned. *)
WsReconnect ==
    /\ pc["ws"] = "reconnect"
    /\ pc' = [pc EXCEPT !["ws"] = IF ws_running THEN "connect" ELSE "done"]
    /\ obs' = NoRun
    /\ UNCHANGED <<cfgVars, updVars, wsVars, relayVars, tmVars, logVars, ctlVars, ret>>

(* ------------------------------------------------------------------------ *)
(* SpecWs: the four activities started by TurnstileController.start with    *)
(* the reconnecting intake, no card presented and no command that opens;    *)
(* stop() may be called at any point.                                       *)
(* ------------------------------------------------------------------------ *)
InitWs ==
    /\ config \in [DEVICE_TYPE : {"turnstile", "door"},
                   FALLBACK_MODE_ENABLED : {TRUE},
                   RELAY_OPEN_DURATION : {1},
                   AUTO_UPDATE_ENABLED : BOOLEAN,
                   MAX_OFFLINE_LOGS : {MAX_OFFLINE_LOGS}]
    /\ cancelledIsException \in BOOLEAN
    /\ running = TRUE
    /\ connection_online \in BOOLEAN
    /\ whitelist = Cards
    /\ cache = <<>>
    /\ disk = NoDocument
    /\ lock = "none"
    /\ lockq = <<>>
    /\ run = [o \in Owners |-> NoRun]
    /\ nextId = 1
    /\ snap = [p \in Drainers |-> <<>>]
    /\ ws_running = TRUE
    /\ relay_states = [c \in Channels |-> FALSE]
    /\ relay_tasks = [c \in Channels |-> "none"]
    /\ tasks = [o \in Owners |-> NoTask]
    /\ ready = <<>>
    /\ pc = [p \in Procs |->
                CASE p = "ws" -> "connect" [] p = "stop" -> "idle" [] OTHER -> "start"]
    /\ ret = [o \in Owners |-> "none"]
    /\ age = [c \in Channels |-> 0]
    /\ win = [c \in Channels |-> 0]
    /\ superseding = [c \in Channels |-> "none"]
    /\ stopped = {}
    /\ obs = NoRun
    /\ UpdaterIdle
    /\ current_reconnect_attempts = 0
    /\ websocket = IF pc["ws"] = "listen" THEN "open" ELSE "none"

NextWs ==
    \/ \E ok \in BOOLEAN : WsConnectReply(ok)
    \/ WsDropped
    \/ WsReconnect
    \/ WsClosed
    \/ \E direction \in {"in", "out"} : WsCommand("other", direction)
    \/ NfcLoopHead
    \/ NfcRead("none")
    \/ NfcFault
    \/ MonLoopHead
    \/ \E res \in {"up", "down", "raise"} : MonProbeReply(res)
    \/ \E wl \in {{}, Cards} : MonWhitelistReply(wl)
    \/ UpdLoopHead
    \/ \E raised \in BOOLEAN : UpdReturn(raised)
    \/ StopRequest
    \/ StopCleanup
    \/ StopGathered

SpecWs == InitWs /\ [][NextWs]_vars

(* C34: the remote-command intake leaves its reconnecting loop only after       *)
(* stop() has cleared its running flag: however many connection attempts fail   *)
(* in a row, WebSocketClient.start has not returned while no shutdown was       *)
(* requested.                                                                   *)
C34_IntakeRunsUntilShutdown ==
    pc["ws"] = "done" => ~ws_running

(***************************************************************************)
(* Events decided without the backend, under Spec.                         *)
(***************************************************************************)

(* The card runs whose decision did not come from an answer of check_access:  *)
(* the device was offline when the card was read, or the call raised.         *)
DecidedLocally == {r \in CardRuns : ~r.on \/ r.ans = "raise"}

(* C36: the event of every card run that was decided without a successful      *)
(* backend check goes to the offline queue: log_access takes it to             *)
(* _save_offline_log, whatever connection_online was when the event was built. *)
C36_LocalDecisionsAreQueued ==
    \A r \in DecidedLocally : r.offl

(* ------------------------------------------------------------------------ *)
(* SpecDrain: the drains of the monitor and of stop() interleaved with card  *)
(* reads, manual opens and the monitor's probes, on a door with fallback     *)
(* disabled (no card opens, 'out' has no channel), so that only the queue    *)
(* is at work.  The device starts online with one stored event.              *)
(* ------------------------------------------------------------------------ *)
InitDrain ==
    /\ config \in [DEVICE_TYPE : {"door"},
                   FALLBACK_MODE_ENABLED : {FALSE},
                   RELAY_OPEN_DURATION : {1},
                   AUTO_UPDATE_ENABLED : {TRUE},
                   MAX_OFFLINE_LOGS : {MAX_OFFLINE_LOGS}]
    /\ cancelledIsException \in BOOLEAN
    /\ running = TRUE
    /\ connection_online = TRUE
    /\ whitelist = Cards
    /\ disk = [kind |-> "list", logs |-> <<-1>>]
    /\ cache = LoadOfflineLogs(disk)
    /\ lock = "none"
    /\ lockq = <<>>
    /\ run = [o \in Owners |-> NoRun]
    /\ nextId = 1
    /\ snap = [p \in Drainers |-> <<>>]
    /\ ws_running = TRUE
    /\ relay_states = [c \in Channels |-> FALSE]
    /\ relay_tasks = [c \in Channels |-> "none"]
    /\ tasks = [o \in Owners |-> NoTask]
    /\ ready = <<>>
    /\ pc = [p \in Procs |->
                CASE p \in {"nfc", "mon"} -> "start" [] p = "ws" -> "listen"
                  [] p = "stop" -> "idle" [] OTHER -> "off"]
    /\ ret = [o \in Owners |-> "none"]
    /\ age = [c \in Channels |-> 0]
    /\ win = [c \in Channels |-> 0]
    /\ superseding = [c \in Channels |-> "none"]
    /\ stopped = {}
    /\ obs = NoRun
    /\ UpdaterIdle
    /\ current_reconnect_attempts = 0
    /\ websocket = IF pc["ws"] = "listen" THEN "open" ELSE "none"

NextDrain ==
    \/ NfcLoopHead
    \/ \E card \in Cards \cup {"none"} : NfcRead(card)
    \/ \E answer \in {"false", "raise"} : NfcAuthReply(answer)
    \/ WsCommand("open_turnstile", "out")
    \/ WsClosed
    \/ LockGranted
    \/ \E p \in LoggerUsers \cup {"stop"} : PersistDone(p, "ok")
    \/ MonLoopHead
    \/ \E res \in {"up", "down"} : MonProbeReply(res)
    \/ \E p \in Drainers, res \in {"true", "false"} : SyncReply(p, res)
    \/ MonWhitelistReply({})
    \/ StopRequest
    \/ StopCleanup
    \/ StopGathered

SpecDrain == InitDrain /\ [][NextDrain]_vars

(* This step is the clear of drainer p: clear_offline_logs empties the queue. *)
Clears(p) == pc[p] /= "persist_clear" /\ pc'[p] = "persist_clear"

(* C35: the clear of a drain removes only events of the snapshot that the       *)
(* backend accepted: every event in the queue when clear_offline_logs empties   *)
(* it was in the drain's snapshot, so an event appended after the snapshot was  *)
(* taken is not removed, whatever card reads, manual opens and connectivity     *)
(* changes fall between the snapshot and the clear.                             *)
C35_ClearRemovesOnlySnapshot ==
    [][\A p \in Drainers :
          Clears(p) => Entries(cache) \subseteq Entries(snap[p])]_vars

(* ------------------------------------------------------------------------ *)
(* SpecRetry: the monitor on a device that was offline at start-up with      *)
(* stored events and whose backend answers every probe from then on; cards   *)
(* are read meanwhile.  sync_offline_logs may refuse or fail.  The loops     *)
(* are tasks of one event loop: each of them that can take a step            *)
(* eventually takes it, and a backend that is asked again and again          *)
(* eventually accepts.                                                       *)
(* ------------------------------------------------------------------------ *)
InitRetry ==
    /\ config \in [DEVICE_TYPE : {"door"},
                   FALLBACK_MODE_ENABLED : {FALSE},
                   RELAY_OPEN_DURATION : {1},
                   AUTO_UPDATE_ENABLED : {TRUE},
                   MAX_OFFLINE_LOGS : {MAX_OFFLINE_LOGS}]
    /\ cancelledIsException \in BOOLEAN
    /\ running = TRUE
    /\ connection_online = FALSE
    /\ whitelist = Cards
    /\ disk \in {[kind |-> "list", logs |-> <<-1>>], [kind |-> "list", logs |-> <<-2, -1>>]}
    /\ cache = LoadOfflineLogs(disk)
    /\ lock = "none"
    /\ lockq = <<>>
    /\ run = [o \in Owners |-> NoRun]
    /\ nextId = 1
    /\ snap = [p \in Drainers |-> <<>>]
    /\ ws_running = TRUE
    /\ relay_states = [c \in Channels |-> FALSE]
    /\ relay_tasks = [c \in Channels |-> "none"]
    /\ tasks = [o \in Owners |-> NoTask]
    /\ ready = <<>>
    /\ pc = [p \in Procs |-> IF p \in {"nfc", "mon"} THEN "start" ELSE "off"]
    /\ ret = [o \in Owners |-> "none"]
    /\ age = [c \in Channels |-> 0]
    /\ win = [c \in Channels |-> 0]
    /\ superseding = [c \in Channels |-> "none"]
    /\ stopped = {}
    /\ obs = NoRun
    /\ UpdaterIdle
    /\ current_reconnect_attempts = 0
    /\ websocket = IF pc["ws"] = "listen" THEN "open" ELSE "none"

(* The steps of the card loop and of the monitor's task. *)
CardLoopStep ==
    \/ NfcLoopHead
    \/ \E card \in Cards \cup {"none"} : NfcRead(card)
    \/ \E answer \in {"false", "raise"} : NfcAuthReply(answer)
    \/ \E outcome \in {"ok", "write_failed"} : PersistDone("nfc", outcome)

MonitorStep ==
    \/ MonLoopHead
    \/ MonProbeReply("up")
    \/ \E res \in {"true", "false", "raise"} : SyncReply("mon", res)
    \/ \E outcome \in {"ok", "write_failed"} : PersistDone("mon", outcome)
    \/ \E wl \in {{}, Cards} : MonWhitelistReply(wl)

NextRetry == CardLoopStep \/ MonitorStep \/ LockGranted

SpecRetry ==
    /\ InitRetry /\ [][NextRetry]_vars
    /\ WF_vars(CardLoopStep)
    /\ WF_vars(MonitorStep)
    /\ WF_vars(LockGranted)
    /\ SF_vars(SyncReply("mon", "true"))

(* C37: with the device online from the first successful probe on and a backend *)
(* that eventually accepts, a queue that holds events is eventually drained: a  *)
(* drain that was refused or failed is tried again by the monitor.              *)
C37_QueueEventuallyDrained ==
    (cache /= <<>>) ~> (cache = <<>>)

(***************************************************************************)
(* Relays after the shutdown's cleanup, under SpecStop.                    *)
(***************************************************************************)

(* C38: once stop() has run the relay cleanup (emergency_stop_all, the wait for *)
(* the cancelled timers, the release of the pins), no channel is energized and  *)
(* no activation is started: a card read, an authorization check or a remote    *)
(* command that was in flight at the shutdown request opens nothing afterwards. *)
C38_NoActivationAfterCleanup ==
    RelayReleased =>
        /\ \A c \in Channels : ~relay_states[c]
        /\ \A o \in Owners : tasks[o].st \notin {"new", "sleep", "fired"}

(* ------------------------------------------------------------------------ *)
(* SpecShutdown: SpecWs with the scheduling of the event loop.  Every        *)
(* activity that can take a step eventually takes one: reads, probes,        *)
(* update checks, connection attempts and sleeps return, messages arrive,    *)
(* and stop(), once called, runs on.  When the peer closes a connection is   *)
(* the peer's choice.                                                        *)
(* ------------------------------------------------------------------------ *)
Activities == {"nfc", "mon", "upd", "ws"}

CardPollStep == NfcLoopHead \/ NfcRead("none") \/ NfcFault

ProbeStep ==
    \/ MonLoopHead
    \/ \E res \in {"up", "down", "raise"} : MonProbeReply(res)
    \/ \E wl \in {{}, Cards} : MonWhitelistReply(wl)

UpdateLoopStep == UpdLoopHead \/ \E raised \in BOOLEAN : UpdReturn(raised)

IntakeStep ==
    \/ \E ok \in BOOLEAN : WsConnectReply(ok)
    \/ WsReconnect
    \/ WsClosed
    \/ \E direction \in {"in", "out"} : WsCommand("other", direction)

StopStep == StopCleanup \/ StopGathered

SpecShutdown ==
    /\ InitWs /\ [][NextWs]_vars
    /\ WF_vars(CardPollStep)
    /\ WF_vars(ProbeStep)
    /\ WF_vars(UpdateLoopStep)
    /\ WF_vars(IntakeStep)
    /\ WF_vars(StopStep)

(* Every task gathered by TurnstileController.start has ended: start returns. *)
StartReturns == \A p \in Activities : pc[p] \in {"done", "dead"}

(* C40: once stop() has been called (running cleared, the remote-command client *)
(* stopped), the card-poll loop, the monitor, the update loop and the           *)
(* remote-command intake all eventually end and start() returns.                *)
C40_ShutdownTerminates ==
    (pc["stop"] /= "idle") ~> StartReturns

====
